---- MODULE Spec2Model ----
(***************************************************************************)
(* MobileCode-Backend: the file synchronisation service (services/sync),   *)
(* the storage quota service and middleware (services/storage,             *)
(* middleware/storage) and the routes that expose them (routes/sync).      *)
(*                                                                         *)
(* Every API call is a process.  A process takes one step per database     *)
(* statement it awaits: the statement executes atomically in the database  *)
(* and the synchronous code up to the next await runs with it.             *)
(***************************************************************************)
EXTENDS Integers, Sequences, FiniteSets, TLC

\* ------------------------------------------------------------------ bounds
MaxTime == 2          \* client timestamps are 0..MaxTime milliseconds
MaxCalls == 3         \* API calls started in one behaviour
StorageLimit == 3     \* users.storage_limit, scaled down from 10MB

\* ------------------------------------------------------------ input domains
Procs == {"p1", "p2"}
Users == {"u1", "u2"}
Filenames == {"f1", "f2"}
FileTypes == {"txt"}
IVs == {0}

\* The device each concurrent caller is authenticated as.
DeviceOf(p) == IF p = "p1" THEN "d1" ELSE "d2"

\* File bodies are JavaScript strings: sequences of characters.  One of the
\* characters is outside ASCII, so its UTF-8 encoding is two bytes long.
Contents == { <<"a">>, <<"U+00E9">>, <<"a", "b">> }

\* ISO datetime strings accepted by the request schema: the instant in
\* milliseconds and the number of fractional digits it is written with
\* ("...:00Z" and "...:00.000Z" are different strings for one instant).
Fracs == {0, 3}
Timestamps == [ms : 0..MaxTime, frac : Fracs]

Undefined == [undefined |-> TRUE]

\* ----------------------------------------------------------------- state
VARIABLES
    sync_files,     \* the sync_files table: a set of rows
    devices,        \* the devices table: a set of rows
    sync_sessions,  \* the sync_sessions table: a set of rows
    users,          \* users.storage_used / users.storage_limit per user id
    auth_tokens,    \* the auth_tokens table: a set of rows
    pairing_codes,  \* the pairing_codes table: a set of rows
    pc,             \* where each call stands
    req,            \* the arguments of each call
    existingFile,   \* uploadFile: the row read by the first SELECT
    stmt,           \* uploadFile: parameters of the statement it has issued
    batch,          \* syncFiles: loop position, snapshot, response, counters
    result,         \* what the call returned or threw
    calls           \* number of calls started so far

vars == <<sync_files, devices, sync_sessions, users, auth_tokens, pairing_codes,
          pc, req, existingFile, stmt, batch, result, calls>>

\* ------------------------------------------------------ EncryptionService
hash(data) == <<"sha256", data>>

encrypt(text, iv) == [iv |-> iv, ciphertext |-> <<"aes", iv, text>>]

CanDecrypt(encryptedData) ==
    /\ DOMAIN encryptedData = {"iv", "ciphertext"}
    /\ encryptedData.ciphertext[1] = "aes"
    /\ encryptedData.ciphertext[2] = encryptedData.iv

decrypt(encryptedData) == encryptedData.ciphertext[3]

\* ------------------------------------------------------------- JS helpers
\* String.prototype.length
Length(content) == Len(content)

Utf8Width(ch) == IF ch = "U+00E9" THEN 2 ELSE 1

RECURSIVE ByteLength(_)
\* Buffer.byteLength(content, 'utf8')
ByteLength(content) ==
    IF content = <<>> THEN 0
    ELSE Utf8Width(Head(content)) + ByteLength(Tail(content))

\* new Date(s).getTime()
GetTime(ts) == ts.ms

\* ------------------------------------------------------------ sync_files
\* SELECT * FROM sync_files WHERE user_id = $1 AND filename = $2
SelectFrom(table, userId, filename) ==
    LET rows == {r \in table : r.user_id = userId /\ r.filename = filename}
    IN  IF rows = {} THEN Undefined ELSE CHOOSE r \in rows : TRUE

SelectFile(userId, filename) == SelectFrom(sync_files, userId, filename)

\* SELECT * FROM sync_files WHERE id = $1
SelectFileById(id) ==
    LET rows == {r \in sync_files : r.id = id}
    IN  IF rows = {} THEN Undefined ELSE CHOOSE r \in rows : TRUE

\* Variant: the UPDATE leaves the version column out of its SET list.
UpdatedRow_NoBump(r, s) ==
    [r EXCEPT !.content = s.content, !.content_hash = s.content_hash,
              !.file_type = s.file_type, !.size = s.size,
              !.last_modified = s.last_modified, !.device_id = s.device_id]

\* Variant: the UPDATE leaves the content_hash column out of its SET list.
UpdatedRow_KeepsHash(r, s) ==
    [r EXCEPT !.content = s.content,
              !.file_type = s.file_type, !.size = s.size,
              !.last_modified = s.last_modified, !.device_id = s.device_id,
              !.version = r.version + 1]

\* UPDATE sync_files SET ..., version = version + 1 WHERE user_id AND filename
UpdatedRow(r, s) ==
    [r EXCEPT !.content = s.content, !.content_hash = s.content_hash,
              !.file_type = s.file_type, !.size = s.size,
              !.last_modified = s.last_modified, !.device_id = s.device_id,
              !.version = r.version + 1]

UpdateFiles(userId, filename, s) ==
    { IF r.user_id = userId /\ r.filename = filename THEN UpdatedRow(r, s) ELSE r
        : r \in sync_files }

\* Variant: the table has its primary key but no UNIQUE(user_id, filename).
InsertViolatesUnique_IdOnly(row) == \E r \in sync_files : r.id = row.id

\* UNIQUE(user_id, filename) and PRIMARY KEY (id)
InsertViolatesUnique(row) ==
    \E r \in sync_files :
        \/ r.user_id = row.user_id /\ r.filename = row.filename
        \/ r.id = row.id

\* FOREIGN KEY (device_id) REFERENCES devices (id)
ViolatesForeignKey(deviceId) == \A d \in devices : d.id # deviceId

\* INSERT INTO sync_files (...) VALUES (..., 1)
NewRow(s) ==
    [id |-> s.id, user_id |-> s.user_id, filename |-> s.filename,
     content |-> s.content, content_hash |-> s.content_hash,
     file_type |-> s.file_type, size |-> s.size,
     last_modified |-> s.last_modified, device_id |-> s.device_id,
     version |-> 1]

\* --------------------------------------------------------- call results
Returned(success, file, conflict) ==
    [threw |-> "", success |-> success, file |-> file, conflict |-> conflict]

Threw(message) ==
    [threw |-> message, success |-> FALSE, file |-> Undefined, conflict |-> Undefined]

NoResult == [pending |-> TRUE]

\* --------------------------------------------------------------- Init
Init ==
    /\ sync_files = {}
    /\ devices = { [id |-> "d1", user_id |-> "u1", name |-> "phone"],
                   [id |-> "d2", user_id |-> "u1", name |-> "laptop"] }
    /\ sync_sessions = {}
    /\ auth_tokens = {}
    /\ pairing_codes = {}
    /\ batch = [p \in Procs |-> Undefined]
    /\ users = [u \in Users |-> [storage_used |-> 0, storage_limit |-> StorageLimit]]
    /\ pc = [p \in Procs |-> "idle"]
    /\ req = [p \in Procs |-> Undefined]
    /\ existingFile = [p \in Procs |-> Undefined]
    /\ stmt = [p \in Procs |-> Undefined]
    /\ result = [p \in Procs |-> NoResult]
    /\ calls = 0

\* A caller with no call in progress: it has not called yet, or its last
\* call has returned (req and result still show that call).
Free(p) == pc[p] \in {"idle", "done"}

\* ------------------------------------------------------------ uploadFile
\* The file the upload in progress is about.
Data(p) == IF req[p].op = "sync" THEN req[p].files[batch[p].i] ELSE req[p].data

\* generateId(): a fresh id for the file this upload may create.
FileId(p) == <<req[p].callNo, IF req[p].op = "sync" THEN batch[p].i ELSE 0>>

\* syncFiles, loop body: what the loop does with the outcome of one uploadFile.
Tally(b, r) ==
    LET counted ==
          IF r.threw # "" THEN [b EXCEPT !.filesFailed = @ + 1]
          ELSE IF r.conflict # Undefined
               THEN [b EXCEPT !.conflicts = Append(@, r.conflict),
                              !.filesFailed = @ + 1]
          ELSE IF r.success /\ r.file # Undefined
               THEN [b EXCEPT !.filesSucceeded = @ + 1]
          ELSE b
    IN  [counted EXCEPT !.i = @ + 1]

\* Variant: inside syncFiles an exception of uploadFile is not caught by the
\* loop and reaches the outer catch.
UploadReturns_Aborts(p, r) ==
    /\ existingFile' = [existingFile EXCEPT ![p] = Undefined]
    /\ IF req[p].op = "sync"
       THEN /\ UNCHANGED result
            /\ IF r.threw # ""
               THEN /\ stmt' = [stmt EXCEPT ![p] = [error |-> r.threw]]
                    /\ pc' = [pc EXCEPT ![p] = "mark_failed"]
                    /\ UNCHANGED batch
               ELSE /\ stmt' = [stmt EXCEPT ![p] = Undefined]
                    /\ batch' = [batch EXCEPT ![p] = Tally(batch[p], r)]
                    /\ pc' = [pc EXCEPT ![p] = IF batch[p].i < Len(req[p].files)
                                                THEN "lookup" ELSE "respond"]
       ELSE /\ stmt' = [stmt EXCEPT ![p] = Undefined]
            /\ pc' = [pc EXCEPT ![p] = "done"]
            /\ result' = [result EXCEPT ![p] = r]
            /\ UNCHANGED batch

\* uploadFile returns or throws: the invocation and its locals are gone.
\* Called from the route the call is over; called from syncFiles the loop
\* counts the outcome and goes on with the next client file.
UploadReturns(p, r) ==
    /\ existingFile' = [existingFile EXCEPT ![p] = Undefined]
    /\ stmt' = [stmt EXCEPT ![p] = Undefined]
    /\ IF req[p].op = "sync"
       THEN /\ batch' = [batch EXCEPT ![p] = Tally(batch[p], r)]
            /\ pc' = [pc EXCEPT ![p] = IF batch[p].i < Len(req[p].files)
                                        THEN "lookup" ELSE "respond"]
            /\ UNCHANGED result
       ELSE /\ pc' = [pc EXCEPT ![p] = "done"]
            /\ result' = [result EXCEPT ![p] = r]
            /\ UNCHANGED batch

\* Variant: the descriptor reports the stored version as the caller's too.
ConflictOf_StoredAsLocal(existing, data) ==
    [filename |-> data.filename,
     local_version |-> existing.version,
     remote_version |-> existing.version,
     local_modified |-> data.last_modified,
     remote_modified |-> existing.last_modified,
     remote_content |-> decrypt(existing.content)]

\* The Conflict Descriptor built from the stored row and the request.
ConflictOf(existing, data) ==
    [filename |-> data.filename,
     local_version |-> 1,
     remote_version |-> existing.version,
     local_modified |-> data.last_modified,
     remote_modified |-> existing.last_modified,
     remote_content |-> decrypt(existing.content)]

\* Variant: the stored replica wins only when it is strictly newer.
Decision_StrictlyNewer(existing, data) ==
    IF existing = Undefined THEN "insert"
    ELSE IF existing.content_hash # hash(data.content)
         THEN IF GetTime(existing.last_modified) > GetTime(data.last_modified)
              THEN "conflict" ELSE "update"
         ELSE IF GetTime(existing.last_modified) >= GetTime(data.last_modified)
              THEN "noop" ELSE "update"

\* Variant: identical content is never written again, whatever its timestamp.
Decision_SameContentNoOp(existing, data) ==
    IF existing = Undefined THEN "insert"
    ELSE IF existing.content_hash # hash(data.content)
         THEN IF GetTime(existing.last_modified) >= GetTime(data.last_modified)
              THEN "conflict" ELSE "update"
         ELSE "noop"

\* Variant: identical content with an equal timestamp is written again.
Decision_TieRewrites(existing, data) ==
    IF existing = Undefined THEN "insert"
    ELSE IF existing.content_hash # hash(data.content)
         THEN IF GetTime(existing.last_modified) >= GetTime(data.last_modified)
              THEN "conflict" ELSE "update"
         ELSE IF GetTime(existing.last_modified) > GetTime(data.last_modified)
              THEN "noop" ELSE "update"

\* Variant: an existing replica is always overwritten (last writer wins).
Decision_AlwaysAccepts(existing, data) ==
    IF existing = Undefined THEN "insert" ELSE "update"

\* The branch uploadFile takes once the first SELECT has answered.
Decision(existing, data) ==
    IF existing = Undefined THEN "insert"
    ELSE IF existing.content_hash # hash(data.content)
         THEN IF GetTime(existing.last_modified) >= GetTime(data.last_modified)
              THEN "conflict" ELSE "update"
         ELSE IF GetTime(existing.last_modified) >= GetTime(data.last_modified)
              THEN "noop" ELSE "update"

\* Variant: the statement keeps the device that wrote the row first.
WriteParams_KeepsDevice(p, iv) ==
    [id |-> FileId(p),
     user_id |-> req[p].userId,
     filename |-> Data(p).filename,
     content |-> encrypt(Data(p).content, iv),
     content_hash |-> hash(Data(p).content),
     file_type |-> Data(p).file_type,
     size |-> Length(Data(p).content),
     last_modified |-> Data(p).last_modified,
     device_id |-> LET e == SelectFile(req[p].userId, Data(p).filename)
                   IN  IF e = Undefined THEN req[p].deviceId ELSE e.device_id]

\* Parameters of the UPDATE / INSERT statement uploadFile issues.
WriteParams(p, iv) ==
    [id |-> FileId(p),
     user_id |-> req[p].userId,
     filename |-> Data(p).filename,
     content |-> encrypt(Data(p).content, iv),
     content_hash |-> hash(Data(p).content),
     file_type |-> Data(p).file_type,
     size |-> Length(Data(p).content),
     last_modified |-> Data(p).last_modified,
     device_id |-> req[p].deviceId]

\* router.post('/files'): authenticateToken, validate(schemas.syncFile), then
\* the handler calls syncService.uploadFile with the authenticated identity.
PostFile(p, userIds, deviceIds, filenames, contents, timestamps) ==
    /\ Free(p)
    /\ calls < MaxCalls
    /\ \E u \in userIds, d \in deviceIds, f \in filenames, c \in contents,
          ft \in FileTypes, lm \in timestamps :
          req' = [req EXCEPT ![p] =
                    [op |-> "upload", userId |-> u, deviceId |-> d,
                     callNo |-> calls + 1,
                     data |-> [filename |-> f, content |-> c,
                               file_type |-> ft, last_modified |-> lm]]]
    /\ calls' = calls + 1
    /\ pc' = [pc EXCEPT ![p] = "lookup"]
    /\ result' = [result EXCEPT ![p] = NoResult]
    /\ UNCHANGED <<sync_files, devices, sync_sessions, users, auth_tokens, pairing_codes,
                   existingFile, stmt, batch>>

\* Variant: the conflict is reported but the proposed content is written too.
ReturnConflict_Overwrites(p, existing) ==
    /\ UploadReturns(p, Returned(FALSE, Undefined, ConflictOf(existing, Data(p))))
    /\ sync_files' = UpdateFiles(req[p].userId, Data(p).filename, WriteParams(p, 0))

\* "Existing file is newer or same age, return conflict"
ReturnConflict(p, existing) ==
    /\ IF CanDecrypt(existing.content)
       THEN UploadReturns(p, Returned(FALSE, Undefined, ConflictOf(existing, Data(p))))
       ELSE UploadReturns(p, Threw("Failed to decrypt data"))
    /\ UNCHANGED sync_files

\* "Same content, existing is newer or same - no update needed"
ReturnExisting(p, existing) ==
    /\ UploadReturns(p, Returned(TRUE, existing, Undefined))
    /\ UNCHANGED sync_files

\* "Update existing file" / "Create new file": encrypt and issue the statement.
IssueWrite(p, existing, next) ==
    /\ \E iv \in IVs : stmt' = [stmt EXCEPT ![p] = WriteParams(p, iv)]
    /\ existingFile' = [existingFile EXCEPT ![p] = existing]
    /\ pc' = [pc EXCEPT ![p] = next]
    /\ UNCHANGED <<sync_files, batch, result>>

\* Variant: inside a batch the decision is taken against the row the
\* start-of-batch snapshot holds, not against the store.
UploadLookup_Snapshot(p) ==
    /\ pc[p] = "lookup"
    /\ LET existing == IF req[p].op = "sync"
                       THEN SelectFrom(batch[p].serverFiles, req[p].userId,
                                       Data(p).filename)
                       ELSE SelectFile(req[p].userId, Data(p).filename)
           d == Decision(existing, Data(p))
       IN  CASE d = "conflict" -> ReturnConflict(p, existing)
             [] d = "noop" -> ReturnExisting(p, existing)
             [] d = "update" -> IssueWrite(p, existing, "update")
             [] d = "insert" -> IssueWrite(p, existing, "insert")
    /\ UNCHANGED <<devices, sync_sessions, users, auth_tokens, pairing_codes, req, calls>>

\* The first SELECT answers; the code decides and either returns or issues
\* its write statement.
UploadLookup(p) ==
    /\ pc[p] = "lookup"
    /\ LET existing == SelectFile(req[p].userId, Data(p).filename)
           d == Decision(existing, Data(p))
       IN  CASE d = "conflict" -> ReturnConflict(p, existing)
             [] d = "noop" -> ReturnExisting(p, existing)
             [] d = "update" -> IssueWrite(p, existing, "update")
             [] d = "insert" -> IssueWrite(p, existing, "insert")
    /\ UNCHANGED <<devices, sync_sessions, users, auth_tokens, pairing_codes, req, calls>>

\* The UPDATE statement executes.
UploadRunUpdate(p) ==
    /\ pc[p] = "update"
    /\ IF /\ SelectFile(stmt[p].user_id, stmt[p].filename) # Undefined
          /\ ViolatesForeignKey(stmt[p].device_id)
       THEN /\ UploadReturns(p, Threw("FOREIGN KEY constraint failed"))
            /\ UNCHANGED sync_files
       ELSE /\ sync_files' = UpdateFiles(stmt[p].user_id, stmt[p].filename, stmt[p])
            /\ pc' = [pc EXCEPT ![p] = "select_updated"]
            /\ UNCHANGED <<existingFile, stmt, batch, result>>
    /\ UNCHANGED <<devices, sync_sessions, users, auth_tokens, pairing_codes, req, calls>>

\* The INSERT statement executes, or is refused by a constraint.
UploadRunInsert(p) ==
    /\ pc[p] = "insert"
    /\ IF InsertViolatesUnique(NewRow(stmt[p]))
       THEN /\ UploadReturns(p, Threw("UNIQUE constraint failed"))
            /\ UNCHANGED sync_files
       ELSE IF ViolatesForeignKey(stmt[p].device_id)
       THEN /\ UploadReturns(p, Threw("FOREIGN KEY constraint failed"))
            /\ UNCHANGED sync_files
       ELSE /\ sync_files' = sync_files \cup {NewRow(stmt[p])}
            /\ pc' = [pc EXCEPT ![p] = "select_new"]
            /\ UNCHANGED <<existingFile, stmt, batch, result>>
    /\ UNCHANGED <<devices, sync_sessions, users, auth_tokens, pairing_codes, req, calls>>

\* SELECT ... WHERE user_id AND filename after the UPDATE; return.
UploadSelectUpdated(p) ==
    /\ pc[p] = "select_updated"
    /\ UploadReturns(p, Returned(TRUE, SelectFile(req[p].userId, Data(p).filename),
                                 Undefined))
    /\ UNCHANGED <<sync_files, devices, sync_sessions, users, auth_tokens, pairing_codes,
                   req, calls>>

\* SELECT ... WHERE id after the INSERT; return.
UploadSelectNew(p) ==
    /\ pc[p] = "select_new"
    /\ UploadReturns(p, Returned(TRUE, SelectFileById(stmt[p].id), Undefined))
    /\ UNCHANGED <<sync_files, devices, sync_sessions, users, auth_tokens, pairing_codes,
                   req, calls>>

\* ------------------------------------------------------------ deleteFile
\* Variant: deleteFile answers true whether or not a row was removed.
DeleteFile_AlwaysTrue(p, userIds, filenames) ==
    /\ Free(p)
    /\ calls < MaxCalls
    /\ \E u \in userIds, f \in filenames :
          LET rows == {r \in sync_files : r.user_id = u /\ r.filename = f}
          IN  /\ sync_files' = sync_files \ rows
              /\ req' = [req EXCEPT ![p] =
                           [op |-> "delete", userId |-> u,
                            callNo |-> calls + 1, filename |-> f]]
              /\ result' = [result EXCEPT ![p] = Returned(TRUE, Undefined, Undefined)]
    /\ calls' = calls + 1
    /\ pc' = [pc EXCEPT ![p] = "done"]
    /\ UNCHANGED <<devices, sync_sessions, users, auth_tokens, pairing_codes,
                   existingFile, stmt, batch>>

\* Variant: a soft delete; the row stays and the call answers true.
DeleteFile_KeepsRow(p, userIds, filenames) ==
    /\ Free(p)
    /\ calls < MaxCalls
    /\ \E u \in userIds, f \in filenames :
          LET rows == {r \in sync_files : r.user_id = u /\ r.filename = f}
          IN  /\ rows # {}
              /\ req' = [req EXCEPT ![p] =
                           [op |-> "delete", userId |-> u,
                            callNo |-> calls + 1, filename |-> f]]
              /\ result' = [result EXCEPT ![p] = Returned(TRUE, Undefined, Undefined)]
    /\ calls' = calls + 1
    /\ pc' = [pc EXCEPT ![p] = "done"]
    /\ UNCHANGED <<sync_files, devices, sync_sessions, users, auth_tokens,
                   pairing_codes, existingFile, stmt, batch>>

\* router.delete('/files/:filename') -> syncService.deleteFile
DeleteFile(p, userIds, filenames) ==
    /\ Free(p)
    /\ calls < MaxCalls
    /\ \E u \in userIds, f \in filenames :
          LET rows == {r \in sync_files : r.user_id = u /\ r.filename = f}
          IN  /\ sync_files' = sync_files \ rows
              /\ req' = [req EXCEPT ![p] =
                           [op |-> "delete", userId |-> u,
                            callNo |-> calls + 1, filename |-> f]]
              /\ result' = [result EXCEPT ![p] =
                              Returned(Cardinality(rows) > 0, Undefined, Undefined)]
    /\ calls' = calls + 1
    /\ pc' = [pc EXCEPT ![p] = "done"]
    /\ UNCHANGED <<devices, sync_sessions, users, auth_tokens, pairing_codes,
                   existingFile, stmt, batch>>

\* ------------------------------------------------------- StorageService
RECURSIVE SumSizes(_)
SumSizes(rows) ==
    IF rows = {} THEN 0
    ELSE LET r == CHOOSE x \in rows : TRUE
         IN  r.size + SumSizes(rows \ {r})

\* SELECT COALESCE(SUM(size), 0) FROM sync_files WHERE user_id = $1
calculateUserStorageUsage(userId) ==
    SumSizes({r \in sync_files : r.user_id = userId})

\* updateUserStorageUsage: the SUM is read ...
StorageCalculate(p, userIds) ==
    /\ Free(p)
    /\ calls < MaxCalls
    /\ \E u \in userIds :
          /\ req' = [req EXCEPT ![p] =
                       [op |-> "updateUserStorageUsage", userId |-> u,
                        callNo |-> calls + 1]]
          /\ stmt' = [stmt EXCEPT ![p] =
                        [actualUsage |-> calculateUserStorageUsage(u)]]
    /\ calls' = calls + 1
    /\ pc' = [pc EXCEPT ![p] = "store_usage"]
    /\ result' = [result EXCEPT ![p] = NoResult]
    /\ UNCHANGED <<sync_files, devices, sync_sessions, users, auth_tokens, pairing_codes,
                   existingFile, batch>>

\* ... and then written to users.storage_used.
StorageStore(p) ==
    /\ pc[p] = "store_usage"
    /\ users' = [users EXCEPT ![req[p].userId].storage_used = stmt[p].actualUsage]
    /\ pc' = [pc EXCEPT ![p] = "done"]
    /\ result' = [result EXCEPT ![p] = Returned(TRUE, Undefined, Undefined)]
    /\ stmt' = [stmt EXCEPT ![p] = Undefined]
    /\ UNCHANGED <<sync_files, devices, sync_sessions, auth_tokens, pairing_codes, req,
                   existingFile, batch, calls>>

\* getUserStorageInfo
getUserStorageInfo(userId) ==
    LET used == users[userId].storage_used
        limit == users[userId].storage_limit
        diff == limit - used
    IN  [used |-> used, limit |-> limit,
         available |-> IF diff > 0 THEN diff ELSE 0,
         percentUsed |-> (200 * used + limit) \div (2 * limit)]

\* Variant: a write that fills the quota exactly is refused.
checkStorageLimit_Strict(userId, additionalBytes) ==
    LET storageInfo == getUserStorageInfo(userId)
        wouldExceed == storageInfo.used + additionalBytes >= storageInfo.limit
    IN  [allowed |-> ~wouldExceed,
         storageInfo |-> [storageInfo EXCEPT !.used = storageInfo.used + additionalBytes]]

\* checkStorageLimit
checkStorageLimit(userId, additionalBytes) ==
    LET storageInfo == getUserStorageInfo(userId)
        wouldExceed == storageInfo.used + additionalBytes > storageInfo.limit
    IN  [allowed |-> ~wouldExceed,
         storageInfo |-> [storageInfo EXCEPT !.used = storageInfo.used + additionalBytes]]

\* validateStorageForFile: TRUE when it throws STORAGE_LIMIT_EXCEEDED
validateStorageForFile(userId, content, existingFileSize) ==
    LET newSize == ByteLength(content)
        sizeChange == newSize - existingFileSize
    IN  IF sizeChange <= 0 THEN FALSE
        ELSE ~checkStorageLimit(userId, sizeChange).allowed

RECURSIVE TotalSize(_)
\* files.reduce((sum, file) => sum + Buffer.byteLength(file.content, 'utf8'), 0)
TotalSize(files) ==
    IF files = <<>> THEN 0
    ELSE ByteLength(Head(files).content) + TotalSize(Tail(files))

\* validateStorageForFiles: TRUE when it throws STORAGE_LIMIT_EXCEEDED
validateStorageForFiles(userId, files) ==
    ~checkStorageLimit(userId, TotalSize(files)).allowed

\* getExistingFileSize (middleware/storage)
getExistingFileSize(userId, filename) ==
    LET file == SelectFile(userId, filename)
    IN  IF file = Undefined THEN 0 ELSE file.size

\* validateStorage middleware: TRUE when it answers 413 instead of next()
validateStorage(userId, body) ==
    IF "files" \in DOMAIN body
    THEN validateStorageForFiles(userId, body.files)
    ELSE IF body.content # <<>>
         THEN validateStorageForFile(userId, body.content,
                                     getExistingFileSize(userId, body.filename))
         ELSE FALSE

\* What the StorageService methods return and throw.
StorageValue(value) == [threw |-> "", value |-> value]

StorageCalculationError(message) ==
    [threw |-> message, type |-> "STORAGE_CALCULATION_ERROR"]

StorageLimitExceeded(storageInfo) ==
    [threw |-> "Storage limit exceeded", type |-> "STORAGE_LIMIT_EXCEEDED",
     storageInfo |-> storageInfo]

\* SELECT storage_used, storage_limit FROM users WHERE id = $1
SelectUser(userId) == IF userId \in DOMAIN users THEN users[userId] ELSE Undefined

\* A call of a StorageService method that is over after its one statement.
StorageCall(p, request, answer) ==
    /\ Free(p)
    /\ calls < MaxCalls
    /\ req' = [req EXCEPT ![p] = request @@ [callNo |-> calls + 1]]
    /\ result' = [result EXCEPT ![p] = answer]
    /\ calls' = calls + 1
    /\ pc' = [pc EXCEPT ![p] = "done"]
    /\ UNCHANGED <<sync_files, devices, sync_sessions, users, auth_tokens, pairing_codes,
                   existingFile, stmt, batch>>

\* getUserStorageInfo as a call: a missing user makes it throw 'User not
\* found' inside its try block, and its catch block replaces whatever was
\* thrown there.
GetStorageInfo(p, userIds) ==
    \E u \in userIds :
        StorageCall(p, [op |-> "getUserStorageInfo", userId |-> u],
                    IF SelectUser(u) = Undefined
                    THEN StorageCalculationError("Failed to get storage info")
                    ELSE StorageValue(getUserStorageInfo(u)))

\* getUserStorageInfo, db.get rejects.
GetStorageInfoFails(p, userIds) ==
    \E u \in userIds :
        StorageCall(p, [op |-> "getUserStorageInfo", userId |-> u, rejected |-> TRUE],
                    StorageCalculationError("Failed to get storage info"))

\* checkStorageLimit as a call.
CheckStorageLimit(p, userIds, deltas) ==
    \E u \in userIds, additionalBytes \in deltas :
        StorageCall(p, [op |-> "checkStorageLimit", userId |-> u,
                        additionalBytes |-> additionalBytes],
                    IF SelectUser(u) = Undefined
                    THEN StorageCalculationError("Failed to get storage info")
                    ELSE StorageValue(checkStorageLimit(u, additionalBytes)))

\* validateStorageForFile as a call.
ValidateStorageForFile(p, userIds, contents, sizes) ==
    \E u \in userIds, content \in contents, existingFileSize \in sizes :
        LET sizeChange == ByteLength(content) - existingFileSize
        IN  StorageCall(p, [op |-> "validateStorageForFile", userId |-> u,
                            content |-> content,
                            existingFileSize |-> existingFileSize],
                        IF sizeChange <= 0 THEN StorageValue(Undefined)
                        ELSE IF SelectUser(u) = Undefined
                        THEN StorageCalculationError("Failed to get storage info")
                        ELSE IF checkStorageLimit(u, sizeChange).allowed
                        THEN StorageValue(Undefined)
                        ELSE StorageLimitExceeded(
                                 checkStorageLimit(u, sizeChange).storageInfo))

\* ------------------------------------------------------------- syncFiles
\* getDeviceName: device?.name || 'Unknown Device'
getDeviceName(deviceId) ==
    LET rows == {d \in devices : d.id = deviceId}
    IN  IF rows = {} THEN "Unknown Device" ELSE (CHOOSE d \in rows : TRUE).name

\* One entry of response.files, built from a row of the snapshot.
ResponseFile(serverFile) ==
    [id |-> serverFile.id,
     filename |-> serverFile.filename,
     content |-> decrypt(serverFile.content),
     last_modified |-> serverFile.last_modified,
     version |-> serverFile.version,
     device_name |-> getDeviceName(serverFile.device_id)]

\* response.conflicts.some(c => c.filename === serverFile.filename)
hasConflict(conflicts, serverFile) ==
    \E k \in 1..Len(conflicts) : conflicts[k].filename = serverFile.filename

\* Sequences of at most n client files.
RECURSIVE Batches(_, _)
Batches(entries, n) ==
    IF n = 0 THEN {<<>>}
    ELSE LET shorter == Batches(entries, n - 1)
         IN  shorter \cup {Append(b, e) : b \in shorter, e \in entries}

\* router.post('/sync'): authenticateToken, validate(schemas.syncFiles), then
\* the handler calls syncService.syncFiles, which opens the Sync Session.
PostSync(p, userIds, deviceIds, batches) ==
    /\ Free(p)
    /\ calls < MaxCalls
    /\ \E u \in userIds, d \in deviceIds, files \in batches :
          /\ req' = [req EXCEPT ![p] =
                       [op |-> "sync", userId |-> u, deviceId |-> d,
                        callNo |-> calls + 1, files |-> files]]
          /\ IF ViolatesForeignKey(d)
             THEN /\ pc' = [pc EXCEPT ![p] = "done"]
                  /\ result' = [result EXCEPT ![p] = Threw("FOREIGN KEY constraint failed")]
                  /\ UNCHANGED <<sync_sessions, batch>>
             ELSE /\ sync_sessions' = sync_sessions \cup
                        { [id |-> calls + 1, user_id |-> u, device_id |-> d,
                           status |-> "active", files_synced |-> 0, files_failed |-> 0] }
                  /\ batch' = [batch EXCEPT ![p] =
                                 [i |-> 1, serverFiles |-> {}, rest |-> {},
                                  files |-> {}, conflicts |-> <<>>,
                                  filesSucceeded |-> 0, filesFailed |-> 0]]
                  /\ pc' = [pc EXCEPT ![p] = "snapshot"]
                  /\ result' = [result EXCEPT ![p] = NoResult]
    /\ calls' = calls + 1
    /\ UNCHANGED <<sync_files, devices, users, auth_tokens, pairing_codes,
                   existingFile, stmt>>

\* Variant: the snapshot holds only the rows the calling device wrote.
SyncSnapshot_OwnDevice(p) ==
    /\ pc[p] = "snapshot"
    /\ LET serverFiles == {r \in sync_files : /\ r.user_id = req[p].userId
                                              /\ r.device_id = req[p].deviceId}
       IN  batch' = [batch EXCEPT ![p].serverFiles = serverFiles,
                                  ![p].rest = serverFiles]
    /\ pc' = [pc EXCEPT ![p] = IF Len(req[p].files) > 0 THEN "lookup" ELSE "respond"]
    /\ UNCHANGED <<sync_files, devices, sync_sessions, users, auth_tokens, pairing_codes,
                   req, existingFile,
                   stmt, result, calls>>

\* Variant: the snapshot is read without the user_id condition.
SyncSnapshot_AllUsers(p) ==
    /\ pc[p] = "snapshot"
    /\ batch' = [batch EXCEPT ![p].serverFiles = sync_files, ![p].rest = sync_files]
    /\ pc' = [pc EXCEPT ![p] = IF Len(req[p].files) > 0 THEN "lookup" ELSE "respond"]
    /\ UNCHANGED <<sync_files, devices, sync_sessions, users, auth_tokens,
                   pairing_codes, req, existingFile, stmt, result, calls>>

\* SELECT * FROM sync_files WHERE user_id = $1: the snapshot of the batch.
SyncSnapshot(p) ==
    /\ pc[p] = "snapshot"
    /\ LET serverFiles == {r \in sync_files : r.user_id = req[p].userId}
       IN  batch' = [batch EXCEPT ![p].serverFiles = serverFiles,
                                  ![p].rest = serverFiles]
    /\ pc' = [pc EXCEPT ![p] = IF Len(req[p].files) > 0 THEN "lookup" ELSE "respond"]
    /\ UNCHANGED <<sync_files, devices, sync_sessions, users, auth_tokens, pairing_codes,
                   req, existingFile,
                   stmt, result, calls>>

\* Variant: the response leaves out the files the caller proposed itself.
SyncRespond_SkipsProposed(p) ==
    /\ pc[p] = "respond"
    /\ batch[p].rest # {}
    /\ LET serverFile == CHOOSE r \in batch[p].rest : TRUE
           b == [batch[p] EXCEPT !.rest = @ \ {serverFile}]
       IN  batch' = [batch EXCEPT ![p] =
                       IF \/ hasConflict(b.conflicts, serverFile)
                          \/ \E k \in 1..Len(req[p].files) :
                                req[p].files[k].filename = serverFile.filename
                       THEN b
                       ELSE IF CanDecrypt(serverFile.content)
                            THEN [b EXCEPT !.files = @ \cup {ResponseFile(serverFile)}]
                            ELSE [b EXCEPT !.filesFailed = @ + 1]]
    /\ UNCHANGED <<sync_files, devices, sync_sessions, users, auth_tokens, pairing_codes,
                   pc, req, existingFile,
                   stmt, result, calls>>

\* "Return all server files that aren't in conflict": the next row of the
\* snapshot is decrypted, its device name is read and it is pushed.
SyncRespond(p) ==
    /\ pc[p] = "respond"
    /\ batch[p].rest # {}
    /\ LET serverFile == CHOOSE r \in batch[p].rest : TRUE
           b == [batch[p] EXCEPT !.rest = @ \ {serverFile}]
       IN  batch' = [batch EXCEPT ![p] =
                       IF hasConflict(b.conflicts, serverFile) THEN b
                       ELSE IF CanDecrypt(serverFile.content)
                            THEN [b EXCEPT !.files = @ \cup {ResponseFile(serverFile)}]
                            ELSE [b EXCEPT !.filesFailed = @ + 1]]
    /\ UNCHANGED <<sync_files, devices, sync_sessions, users, auth_tokens, pairing_codes,
                   pc, req, existingFile,
                   stmt, result, calls>>

\* UPDATE sync_sessions SET status = 'completed', ...; return response.
SyncComplete(p) ==
    /\ pc[p] = "respond"
    /\ batch[p].rest = {}
    /\ sync_sessions' =
          { IF r.id = req[p].callNo
            THEN [r EXCEPT !.status = "completed",
                           !.files_synced = batch[p].filesSucceeded,
                           !.files_failed = batch[p].filesFailed]
            ELSE r : r \in sync_sessions }
    /\ result' = [result EXCEPT ![p] =
                    [threw |-> "", success |-> TRUE, file |-> Undefined,
                     conflict |-> Undefined,
                     response |-> [files |-> batch[p].files,
                                   conflicts |-> batch[p].conflicts]]]
    /\ batch' = [batch EXCEPT ![p] = Undefined]
    /\ pc' = [pc EXCEPT ![p] = "done"]
    /\ UNCHANGED <<sync_files, devices, users, auth_tokens, pairing_codes,
                   req, existingFile, stmt, calls>>

\* db.all rejects: the snapshot read fails and the outer catch takes over.
SyncSnapshotFails(p) ==
    /\ pc[p] = "snapshot"
    /\ stmt' = [stmt EXCEPT ![p] = [error |-> "snapshot read failed"]]
    /\ pc' = [pc EXCEPT ![p] = "mark_failed"]
    /\ UNCHANGED <<sync_files, devices, sync_sessions, users, auth_tokens, pairing_codes,
                   req, existingFile,
                   batch, result, calls>>

\* Variant: a rejected completion write is swallowed and the response is
\* returned all the same.
SyncCompleteFails_Swallowed(p) ==
    /\ pc[p] = "respond"
    /\ batch[p].rest = {}
    /\ result' = [result EXCEPT ![p] =
                    [threw |-> "", success |-> TRUE, file |-> Undefined,
                     conflict |-> Undefined,
                     response |-> [files |-> batch[p].files,
                                   conflicts |-> batch[p].conflicts]]]
    /\ batch' = [batch EXCEPT ![p] = Undefined]
    /\ pc' = [pc EXCEPT ![p] = "done"]
    /\ UNCHANGED <<sync_files, devices, sync_sessions, users, auth_tokens, pairing_codes,
                   req, existingFile,
                   stmt, calls>>

\* db.run rejects: the completion write fails (and changes nothing) and the
\* outer catch takes over.
SyncCompleteFails(p) ==
    /\ pc[p] = "respond"
    /\ batch[p].rest = {}
    /\ stmt' = [stmt EXCEPT ![p] = [error |-> "completion write failed"]]
    /\ pc' = [pc EXCEPT ![p] = "mark_failed"]
    /\ UNCHANGED <<sync_files, devices, sync_sessions, users, auth_tokens, pairing_codes,
                   req, existingFile,
                   batch, result, calls>>

\* Variant: the failure write has no WHERE id clause.
SyncMarkFailed_NoWhere(p) ==
    /\ pc[p] = "mark_failed"
    /\ sync_sessions' =
          { [r EXCEPT !.status = "failed", !.files_failed = batch[p].filesFailed]
              : r \in sync_sessions }
    /\ result' = [result EXCEPT ![p] = Threw(stmt[p].error)]
    /\ batch' = [batch EXCEPT ![p] = Undefined]
    /\ stmt' = [stmt EXCEPT ![p] = Undefined]
    /\ pc' = [pc EXCEPT ![p] = "done"]
    /\ UNCHANGED <<sync_files, devices, users, auth_tokens, pairing_codes,
                   req, existingFile, calls>>

\* catch: UPDATE sync_sessions SET status = 'failed', ...; throw error.
SyncMarkFailed(p) ==
    /\ pc[p] = "mark_failed"
    /\ sync_sessions' =
          { IF r.id = req[p].callNo
            THEN [r EXCEPT !.status = "failed", !.files_failed = batch[p].filesFailed]
            ELSE r : r \in sync_sessions }
    /\ result' = [result EXCEPT ![p] = Threw(stmt[p].error)]
    /\ batch' = [batch EXCEPT ![p] = Undefined]
    /\ stmt' = [stmt EXCEPT ![p] = Undefined]
    /\ pc' = [pc EXCEPT ![p] = "done"]
    /\ UNCHANGED <<sync_files, devices, users, auth_tokens, pairing_codes,
                   req, existingFile, calls>>

\* catch: the failure write rejects as well; its error leaves syncFiles in
\* place of the one that was caught.
SyncMarkFailedFails(p) ==
    /\ pc[p] = "mark_failed"
    /\ result' = [result EXCEPT ![p] = Threw("failure write failed")]
    /\ batch' = [batch EXCEPT ![p] = Undefined]
    /\ stmt' = [stmt EXCEPT ![p] = Undefined]
    /\ pc' = [pc EXCEPT ![p] = "done"]
    /\ UNCHANGED <<sync_files, devices, sync_sessions, users, auth_tokens, pairing_codes,
                   req, existingFile, calls>>

\* A stored ciphertext that decrypt() throws on: the column was damaged, or
\* it was written under another ENCRYPTION_KEY.
Damaged(content) == [iv |-> content.iv, ciphertext |-> <<"damaged">>]

DamageContent(userIds) ==
    /\ \E r \in sync_files :
          /\ r.user_id \in userIds
          /\ CanDecrypt(r.content)
          /\ sync_files' = (sync_files \ {r}) \cup
                              {[r EXCEPT !.content = Damaged(r.content)]}
    /\ UNCHANGED <<devices, sync_sessions, users, auth_tokens, pairing_codes,
                   pc, req, existingFile, stmt,
                   batch, result, calls>>

\* -------------------------------------------- downloadFile, getUserFiles
Null == [null |-> TRUE]

\* LEFT JOIN devices d ON sf.device_id = d.id: d.name, or NULL without a device.
JoinedDeviceName(deviceId) ==
    LET rows == {d \in devices : d.id = deviceId}
    IN  IF rows = {} THEN Null ELSE (CHOOSE d \in rows : TRUE).name

\* downloadFile: file.content = encryption.decrypt(file.content) in a try
\* whose catch throws 'Failed to decrypt file content'.
DownloadAnswer(file) ==
    IF file = Undefined THEN [threw |-> "", file |-> Null]
    ELSE IF CanDecrypt(file.content)
         THEN [threw |-> "", file |-> [file EXCEPT !.content = decrypt(file.content)]]
         ELSE [threw |-> "Failed to decrypt file content"]

\* getUserFiles: files.map with a try per file; the catch sets
\* file.content = '' and returns the file.
ListedFile(file) ==
    [id |-> file.id, user_id |-> file.user_id, filename |-> file.filename,
     content |-> IF CanDecrypt(file.content) THEN decrypt(file.content) ELSE <<>>,
     content_hash |-> file.content_hash, file_type |-> file.file_type,
     size |-> file.size, last_modified |-> file.last_modified,
     device_id |-> file.device_id, version |-> file.version,
     device_name |-> JoinedDeviceName(file.device_id)]

\* router.get('/files/:filename'): one SELECT, then the decryption.
DownloadFile(p, userIds, filenames) ==
    /\ Free(p)
    /\ calls < MaxCalls
    /\ \E u \in userIds, f \in filenames :
          /\ req' = [req EXCEPT ![p] = [op |-> "downloadFile", userId |-> u,
                                        filename |-> f, callNo |-> calls + 1]]
          /\ result' = [result EXCEPT ![p] = DownloadAnswer(SelectFile(u, f))]
    /\ calls' = calls + 1
    /\ pc' = [pc EXCEPT ![p] = "done"]
    /\ UNCHANGED <<sync_files, devices, sync_sessions, users, auth_tokens, pairing_codes,
                   existingFile, stmt, batch>>

\* router.get('/files'): one SELECT of the user's rows, then the map.  The
\* rows of the answer are kept as a set.
GetUserFiles(p, userIds) ==
    /\ Free(p)
    /\ calls < MaxCalls
    /\ \E u \in userIds :
          /\ req' = [req EXCEPT ![p] = [op |-> "getUserFiles", userId |-> u,
                                        callNo |-> calls + 1]]
          /\ result' = [result EXCEPT ![p] =
                          [threw |-> "",
                           files |-> {ListedFile(r) : r \in {x \in sync_files : x.user_id = u}}]]
    /\ calls' = calls + 1
    /\ pc' = [pc EXCEPT ![p] = "done"]
    /\ UNCHANGED <<sync_files, devices, sync_sessions, users, auth_tokens, pairing_codes,
                   existingFile, stmt, batch>>

\* ------------------------------------------------- AuthService: devices
DeviceNames == {"phone", "tablet"}
DeviceTypes == {"mobile", "desktop"}
Platforms == {"ios"}

\* encryption.generateId() in createOrUpdateDevice: an id no row has yet.
GeneratedDeviceIds == <<"g1", "g2", "g3", "g4", "g5", "g6", "g7", "g8">>

\* SELECT * FROM devices WHERE user_id = $1 AND name = $2
SelectDevices(userId, name) == {d \in devices : d.user_id = userId /\ d.name = name}

\* SELECT * FROM devices WHERE id = $1
SelectDeviceById(id) ==
    LET rows == {d \in devices : d.id = id}
    IN  IF rows = {} THEN Undefined ELSE CHOOSE d \in rows : TRUE

\* router.post('/login'): validate(schemas.login), then authService.login.
\* The user is found and the password matches; createOrUpdateDevice starts
\* with a fresh generateId().  CURRENT_TIMESTAMP is the number of the call.
Login(p, userIds) ==
    /\ Free(p)
    /\ calls < MaxCalls
    /\ \E u \in userIds, n \in DeviceNames, t \in DeviceTypes, pf \in Platforms :
          req' = [req EXCEPT ![p] =
                    [op |-> "login", userId |-> u, callNo |-> calls + 1,
                     deviceId |-> GeneratedDeviceIds[calls + 1],
                     data |-> [device_name |-> n, device_type |-> t, platform |-> pf]]]
    /\ calls' = calls + 1
    /\ pc' = [pc EXCEPT ![p] = "deviceLookup"]
    /\ result' = [result EXCEPT ![p] = NoResult]
    /\ UNCHANGED <<sync_files, devices, sync_sessions, users, auth_tokens, pairing_codes,
                   existingFile, stmt, batch>>

\* login: no such user, or bcrypt.compare is false.
LoginRejected(p) ==
    /\ Free(p)
    /\ calls < MaxCalls
    /\ req' = [req EXCEPT ![p] = [op |-> "login", userId |-> Undefined,
                                  callNo |-> calls + 1]]
    /\ calls' = calls + 1
    /\ result' = [result EXCEPT ![p] = Threw("Invalid email or password")]
    /\ pc' = [pc EXCEPT ![p] = "done"]
    /\ UNCHANGED <<sync_files, devices, sync_sessions, users, auth_tokens, pairing_codes,
                   existingFile, stmt, batch>>

\* createOrUpdateDevice: const existingDevice = await db.get(... user_id, name).
\* db.get returns the first row of the result; with several matching rows
\* and no ORDER BY that is any of them.
DeviceLookup(p) ==
    /\ pc[p] = "deviceLookup"
    /\ LET rows == SelectDevices(req[p].userId, req[p].data.device_name)
       IN  IF rows = {}
           THEN /\ existingFile' = [existingFile EXCEPT ![p] = Undefined]
                /\ pc' = [pc EXCEPT ![p] = "deviceInsert"]
           ELSE /\ \E d \in rows : existingFile' = [existingFile EXCEPT ![p] = d]
                /\ pc' = [pc EXCEPT ![p] = "deviceUpdate"]
    /\ UNCHANGED <<sync_files, devices, sync_sessions, users, auth_tokens, pairing_codes,
                   req, stmt, batch,
                   result, calls>>

\* UPDATE devices SET type, platform, last_active = CURRENT_TIMESTAMP WHERE id
DeviceRunUpdate(p) ==
    /\ pc[p] = "deviceUpdate"
    /\ devices' = { IF d.id = existingFile[p].id
                    THEN [d EXCEPT !.type = req[p].data.device_type,
                                   !.platform = req[p].data.platform,
                                   !.last_active = req[p].callNo]
                    ELSE d : d \in devices }
    /\ stmt' = [stmt EXCEPT ![p] = [id |-> existingFile[p].id]]
    /\ pc' = [pc EXCEPT ![p] = "deviceSelect"]
    /\ UNCHANGED <<sync_files, sync_sessions, users, auth_tokens, pairing_codes,
                   req, existingFile, batch,
                   result, calls>>

\* INSERT INTO devices (id, user_id, name, type, platform): the only
\* constraint of the table the statement can break is PRIMARY KEY (id), and
\* the id is fresh.
DeviceRunInsert(p) ==
    /\ pc[p] = "deviceInsert"
    /\ devices' = devices \cup
                    {[id |-> req[p].deviceId,
                      user_id |-> req[p].userId,
                      name |-> req[p].data.device_name,
                      type |-> req[p].data.device_type,
                      platform |-> req[p].data.platform,
                      last_active |-> req[p].callNo]}
    /\ stmt' = [stmt EXCEPT ![p] = [id |-> req[p].deviceId]]
    /\ pc' = [pc EXCEPT ![p] = "deviceSelect"]
    /\ UNCHANGED <<sync_files, sync_sessions, users, auth_tokens, pairing_codes,
                   req, existingFile, batch,
                   result, calls>>

\* return await db.get('SELECT * FROM devices WHERE id = $1') as Device; the
\* caller goes on to generateAuthToken(user.id, device.id), which throws a
\* TypeError when the row is gone.
DeviceSelect(p) ==
    /\ pc[p] = "deviceSelect"
    /\ LET device == SelectDeviceById(stmt[p].id)
       IN  IF device = Undefined
           THEN /\ result' = [result EXCEPT ![p] =
                                [threw |-> "TypeError", device |-> Undefined,
                                 token |-> Undefined]]
                /\ stmt' = [stmt EXCEPT ![p] = Undefined]
                /\ pc' = [pc EXCEPT ![p] = "done"]
           ELSE /\ stmt' = [stmt EXCEPT ![p] = [id |-> device.id, device |-> device]]
                /\ pc' = [pc EXCEPT ![p] = "tokenCleanup"]
                /\ UNCHANGED result
    /\ UNCHANGED <<sync_files, devices, sync_sessions, users, auth_tokens,
                   pairing_codes, req, existingFile, batch, calls>>

\* jwt.sign({ userId, deviceId }, secret, { expiresIn }): the payload and the
\* time of issue, which is the number of the call.
SignToken(userId, deviceId, iat) == [userId |-> userId, deviceId |-> deviceId, iat |-> iat]

\* generateAuthToken: DELETE FROM auth_tokens WHERE device_id = $1
TokenCleanup(p) ==
    /\ pc[p] = "tokenCleanup"
    /\ auth_tokens' = {t \in auth_tokens : t.device_id # stmt[p].id}
    /\ pc' = [pc EXCEPT ![p] = "tokenInsert"]
    /\ UNCHANGED <<sync_files, devices, sync_sessions, users, pairing_codes, req,
                   existingFile, stmt, batch, result, calls>>

\* generateAuthToken: INSERT INTO auth_tokens (...); login and pairDevice
\* return { user, device, token, expires_at }.  FOREIGN KEY (device_id)
\* REFERENCES devices (id) refuses the row of a device that is gone.
TokenInsert(p) ==
    /\ pc[p] = "tokenInsert"
    /\ LET token == SignToken(req[p].userId, stmt[p].id, req[p].callNo)
       IN  IF ViolatesForeignKey(stmt[p].id)
           THEN /\ result' = [result EXCEPT ![p] =
                                [threw |-> "FOREIGN KEY constraint failed",
                                 device |-> Undefined, token |-> Undefined]]
                /\ UNCHANGED auth_tokens
           ELSE /\ auth_tokens' = auth_tokens \cup
                                    {[token |-> token, user_id |-> req[p].userId,
                                      device_id |-> stmt[p].id]}
                /\ result' = [result EXCEPT ![p] =
                                [threw |-> "", device |-> stmt[p].device,
                                 token |-> token]]
    /\ stmt' = [stmt EXCEPT ![p] = Undefined]
    /\ pc' = [pc EXCEPT ![p] = "done"]
    /\ UNCHANGED <<sync_files, devices, sync_sessions, users, pairing_codes, req,
                   existingFile, batch, calls>>

\* router.delete('/devices/:deviceId') -> removeDevice, first statement:
\* DELETE FROM auth_tokens WHERE device_id = $1
RemoveDevice(p, userIds, deviceIds) ==
    /\ Free(p)
    /\ calls < MaxCalls
    /\ \E u \in userIds, d \in deviceIds :
          /\ req' = [req EXCEPT ![p] = [op |-> "removeDevice", userId |-> u,
                                        deviceId |-> d, callNo |-> calls + 1]]
          /\ auth_tokens' = {t \in auth_tokens : t.device_id # d}
    /\ calls' = calls + 1
    /\ result' = [result EXCEPT ![p] = NoResult]
    /\ pc' = [pc EXCEPT ![p] = "removeDevice"]
    /\ UNCHANGED <<sync_files, devices, sync_sessions, users, pairing_codes,
                   existingFile, stmt, batch>>

\* removeDevice, second statement: DELETE FROM devices WHERE id = $1 AND
\* user_id = $2.  sync_files, sync_sessions and auth_tokens reference
\* devices (id) ON DELETE CASCADE and PRAGMA foreign_keys is ON: their rows
\* of a deleted device go with it.
RemoveDeviceRun(p) ==
    /\ pc[p] = "removeDevice"
    /\ LET deleted == {d \in devices : d.id = req[p].deviceId /\ d.user_id = req[p].userId}
           gone(row) == \E d \in deleted : row.device_id = d.id
       IN  /\ devices' = devices \ deleted
           /\ sync_files' = {r \in sync_files : ~gone(r)}
           /\ sync_sessions' = {r \in sync_sessions : ~gone(r)}
           /\ auth_tokens' = {r \in auth_tokens : ~gone(r)}
    /\ result' = [result EXCEPT ![p] = [threw |-> ""]]
    /\ pc' = [pc EXCEPT ![p] = "done"]
    /\ UNCHANGED <<users, pairing_codes, req, existingFile, stmt, batch, calls>>

\* verifyToken, called by authenticateToken for every authenticated route:
\* SELECT * FROM auth_tokens WHERE token = $1 AND expires_at > now, then
\* jwt.verify and the comparison of the payload with the row.  Tokens do not
\* expire within a behaviour.
VerifyToken(p, tokens) ==
    /\ Free(p)
    /\ calls < MaxCalls
    /\ \E token \in tokens :
          LET rows == {t \in auth_tokens : t.token = token}
              authToken == IF rows = {} THEN Undefined ELSE CHOOSE t \in rows : TRUE
          IN  /\ req' = [req EXCEPT ![p] = [op |-> "verifyToken", token |-> token,
                                            callNo |-> calls + 1]]
              /\ IF \/ authToken = Undefined
                    \/ token.userId # authToken.user_id
                    \/ token.deviceId # authToken.device_id
                 THEN /\ result' = [result EXCEPT ![p] = [threw |-> "", value |-> Null]]
                      /\ pc' = [pc EXCEPT ![p] = "done"]
                      /\ UNCHANGED stmt
                 ELSE /\ result' = [result EXCEPT ![p] = NoResult]
                      /\ stmt' = [stmt EXCEPT ![p] = authToken]
                      /\ pc' = [pc EXCEPT ![p] = "touchDevice"]
    /\ calls' = calls + 1
    /\ UNCHANGED <<sync_files, devices, sync_sessions, users, auth_tokens,
                   pairing_codes, existingFile, batch>>

\* verifyToken: UPDATE devices SET last_active = CURRENT_TIMESTAMP WHERE id;
\* return { userId, deviceId }.
VerifyTouch(p) ==
    /\ pc[p] = "touchDevice"
    /\ devices' = { IF d.id = stmt[p].device_id
                    THEN [d EXCEPT !.last_active = req[p].callNo] ELSE d
                      : d \in devices }
    /\ result' = [result EXCEPT ![p] =
                    [threw |-> "",
                     value |-> [userId |-> stmt[p].user_id,
                                deviceId |-> stmt[p].device_id]]]
    /\ stmt' = [stmt EXCEPT ![p] = Undefined]
    /\ pc' = [pc EXCEPT ![p] = "done"]
    /\ UNCHANGED <<sync_files, sync_sessions, users, auth_tokens, pairing_codes,
                   req, existingFile, batch, calls>>

\* ------------------------------------------- AuthService: pairing codes
\* encryption.generatePairingCode(): six digits from Math.random().
PairingCodes == {"111111", "222222"}

\* generatePairingCode, first statement: UPDATE pairing_codes SET used = TRUE
\* WHERE user_id = $1 AND used = FALSE; then the new code is drawn.
GeneratePairingCode(p, userIds) ==
    /\ Free(p)
    /\ calls < MaxCalls
    /\ \E u \in userIds, code \in PairingCodes :
          /\ req' = [req EXCEPT ![p] = [op |-> "generatePairingCode", userId |-> u,
                                        callNo |-> calls + 1]]
          /\ stmt' = [stmt EXCEPT ![p] = [id |-> calls + 1, user_id |-> u,
                                          code |-> code, used |-> FALSE]]
          /\ pairing_codes' = { IF r.user_id = u THEN [r EXCEPT !.used = TRUE] ELSE r
                                  : r \in pairing_codes }
    /\ calls' = calls + 1
    /\ result' = [result EXCEPT ![p] = NoResult]
    /\ pc' = [pc EXCEPT ![p] = "codeInsert"]
    /\ UNCHANGED <<sync_files, devices, sync_sessions, users, auth_tokens,
                   existingFile, batch>>

\* generatePairingCode, second statement: INSERT INTO pairing_codes; the
\* column code is UNIQUE.  return code.
CodeInsert(p) ==
    /\ pc[p] = "codeInsert"
    /\ IF \E r \in pairing_codes : r.code = stmt[p].code
       THEN /\ result' = [result EXCEPT ![p] =
                            [threw |-> "UNIQUE constraint failed", code |-> Undefined]]
            /\ UNCHANGED pairing_codes
       ELSE /\ pairing_codes' = pairing_codes \cup {stmt[p]}
            /\ result' = [result EXCEPT ![p] = [threw |-> "", code |-> stmt[p].code]]
    /\ stmt' = [stmt EXCEPT ![p] = Undefined]
    /\ pc' = [pc EXCEPT ![p] = "done"]
    /\ UNCHANGED <<sync_files, devices, sync_sessions, users, auth_tokens, req,
                   existingFile, batch, calls>>

\* router.post('/pair-device') -> pairDevice, first statement: SELECT ... FROM
\* pairing_codes pc JOIN users u WHERE pc.code = $1 AND pc.used = FALSE AND
\* pc.expires_at > now.  Codes do not expire within a behaviour.
PairDevice(p) ==
    /\ Free(p)
    /\ calls < MaxCalls
    /\ \E code \in PairingCodes, n \in DeviceNames, t \in DeviceTypes, pf \in Platforms :
          LET rows == {r \in pairing_codes : r.code = code /\ ~r.used}
          IN  IF rows = {}
              THEN /\ req' = [req EXCEPT ![p] =
                                [op |-> "pairDevice", code |-> code,
                                 userId |-> Undefined, callNo |-> calls + 1]]
                   /\ result' = [result EXCEPT ![p] =
                                   [threw |-> "Invalid or expired pairing code",
                                    device |-> Undefined, token |-> Undefined]]
                   /\ pc' = [pc EXCEPT ![p] = "done"]
              ELSE /\ req' = [req EXCEPT ![p] =
                                [op |-> "pairDevice", code |-> code,
                                 userId |-> (CHOOSE r \in rows : TRUE).user_id,
                                 callNo |-> calls + 1,
                                 deviceId |-> GeneratedDeviceIds[calls + 1],
                                 data |-> [device_name |-> n, device_type |-> t,
                                           platform |-> pf]]]
                   /\ result' = [result EXCEPT ![p] = NoResult]
                   /\ pc' = [pc EXCEPT ![p] = "pairMark"]
    /\ calls' = calls + 1
    /\ UNCHANGED <<sync_files, devices, sync_sessions, users, auth_tokens,
                   pairing_codes, existingFile, stmt, batch>>

\* pairDevice: UPDATE pairing_codes SET used = TRUE WHERE code = $1; then
\* createOrUpdateDevice and generateAuthToken as in login.
PairMarkUsed(p) ==
    /\ pc[p] = "pairMark"
    /\ pairing_codes' = { IF r.code = req[p].code THEN [r EXCEPT !.used = TRUE] ELSE r
                            : r \in pairing_codes }
    /\ pc' = [pc EXCEPT ![p] = "deviceLookup"]
    /\ UNCHANGED <<sync_files, devices, sync_sessions, users, auth_tokens, req,
                   existingFile, stmt, batch, result, calls>>

\* ----------------------------------------------------------- behaviours
\* Concurrent callers: two devices of one user working on one file name.
RaceUsers == {"u1"}
RaceFilenames == {"f1"}
RaceContents == { <<"a">>, <<"U+00E9">> }
RaceTimestamps == {ts \in Timestamps : ts.frac = 0}

Next ==
    \E p \in Procs :
        \/ PostFile(p, RaceUsers, {DeviceOf(p)}, RaceFilenames, RaceContents, RaceTimestamps)
        \/ UploadLookup(p)
        \/ UploadRunUpdate(p)
        \/ UploadRunInsert(p)
        \/ UploadSelectUpdated(p)
        \/ UploadSelectNew(p)
        \/ DeleteFile(p, RaceUsers, RaceFilenames)

Spec == Init /\ [][Next]_vars

\* One caller at a time, over every file name, body and timestamp.
SeqUsers == {"u1"}
SeqDevices == {"d1", "d2"}
SeqContents == { <<"a">>, <<"U+00E9">> }
SeqTimestamps == {ts \in Timestamps : ts.ms <= 1}

SeqNext ==
    \/ PostFile("p1", SeqUsers, SeqDevices, Filenames, SeqContents, SeqTimestamps)
    \/ UploadLookup("p1")
    \/ UploadRunUpdate("p1")
    \/ UploadRunInsert("p1")
    \/ UploadSelectUpdated("p1")
    \/ UploadSelectNew("p1")
    \/ DeleteFile("p1", SeqUsers, Filenames)

SeqSpec == Init /\ [][SeqNext]_vars

\* One caller at a time, uploads and recomputations of the usage counter.
QuotaUsers == {"u1"}
QuotaDevices == {"d1"}
QuotaTimestamps == {ts \in Timestamps : ts.frac = 0}

QuotaNext ==
    \/ PostFile("p1", QuotaUsers, QuotaDevices, Filenames, Contents, QuotaTimestamps)
    \/ UploadLookup("p1")
    \/ UploadRunUpdate("p1")
    \/ UploadRunInsert("p1")
    \/ UploadSelectUpdated("p1")
    \/ UploadSelectNew("p1")
    \/ StorageCalculate("p1", QuotaUsers)
    \/ StorageStore("p1")

QuotaSpec == Init /\ [][QuotaNext]_vars

\* One caller at a time, at most MaxSyncs batches of at most MaxBatch files.
MaxBatch == 2
MaxSyncs == 2
SyncUsers == {"u1"}
SyncDevices == {"d1"}
SyncEntries ==
    [filename : Filenames, content : { <<"a">>, <<"U+00E9">> },
     file_type : FileTypes, last_modified : {ts \in Timestamps : ts.frac = 0 /\ ts.ms <= 1}]

SyncNext ==
    \/ calls < MaxSyncs
         /\ PostSync("p1", SyncUsers, SyncDevices, Batches(SyncEntries, MaxBatch))
    \/ SyncSnapshot("p1")
    \/ UploadLookup("p1")
    \/ UploadRunUpdate("p1")
    \/ UploadRunInsert("p1")
    \/ UploadSelectUpdated("p1")
    \/ UploadSelectNew("p1")
    \/ SyncRespond("p1")
    \/ SyncComplete("p1")

SyncSpec == Init /\ [][SyncNext]_vars

\* One caller at a time: uploads, recomputations of the usage counter and
\* calls of the StorageService methods, also for a user that does not exist.
StorageUsers == {"u1", "nobody"}
Deltas == 0..(StorageLimit + 1)
ExistingSizes == 0..1

StorageNext ==
    \/ PostFile("p1", QuotaUsers, QuotaDevices, {"f1"}, Contents, QuotaTimestamps)
    \/ UploadLookup("p1")
    \/ UploadRunUpdate("p1")
    \/ UploadRunInsert("p1")
    \/ UploadSelectUpdated("p1")
    \/ UploadSelectNew("p1")
    \/ StorageCalculate("p1", QuotaUsers)
    \/ StorageStore("p1")
    \/ GetStorageInfo("p1", StorageUsers)
    \/ GetStorageInfoFails("p1", StorageUsers)
    \/ CheckStorageLimit("p1", StorageUsers, Deltas)
    \/ ValidateStorageForFile("p1", StorageUsers, Contents, ExistingSizes)

StorageSpec == Init /\ [][StorageNext]_vars

\* Three uploads of one file name, one after the other, on an empty store:
\* the first at T1, the second at T0 < T1, the third at T2 > T1.  The second
\* is sent by the other device, so that its answer stays visible.
Caller(n) == IF n = 2 THEN "p2" ELSE "p1"

ScenarioTimes(n) ==
    {ts \in Timestamps :
        ts.ms = IF n = 1 THEN 1 ELSE IF n = 2 THEN 0 ELSE MaxTime}

ScenarioNext ==
    \E p \in Procs :
        \/ /\ \A q \in Procs : Free(q)
           /\ p = Caller(calls + 1)
           /\ PostFile(p, {"u1"}, {DeviceOf(p)}, {"f1"}, Contents,
                       ScenarioTimes(calls + 1))
        \/ UploadLookup(p)
        \/ UploadRunUpdate(p)
        \/ UploadRunInsert(p)
        \/ UploadSelectUpdated(p)
        \/ UploadSelectNew(p)

ScenarioSpec == Init /\ [][ScenarioNext]_vars

\* Device d1 uploads single files; device d2 of the same user starts a batch
\* whenever no upload of d1 is in progress, and d1 may upload again while
\* the batch runs.
PropagateEntries ==
    [filename : {"f2"}, content : { <<"a">> },
     file_type : FileTypes, last_modified : {ts \in Timestamps : ts.frac = 0 /\ ts.ms <= 1}]

PropagateNext ==
    \/ PostFile("p1", {"u1"}, {"d1"}, Filenames, SeqContents,
                {ts \in Timestamps : ts.frac = 0 /\ ts.ms <= 1})
    \/ Free("p1") /\ PostSync("p2", {"u1"}, {"d2"}, Batches(PropagateEntries, MaxBatch))
    \/ SyncSnapshot("p2")
    \/ SyncRespond("p2")
    \/ SyncComplete("p2")
    \/ \E p \in Procs :
          \/ UploadLookup(p)
          \/ UploadRunUpdate(p)
          \/ UploadRunInsert(p)
          \/ UploadSelectUpdated(p)
          \/ UploadSelectNew(p)

PropagateSpec == Init /\ [][PropagateNext]_vars

\* Batches whose engine-level statements (the snapshot read, the completion
\* write, the failure write) may be rejected by the database.
EngineUsers == {"u1"}
EngineDevices == {"d1"}
EngineEntries ==
    [filename : {"f1"}, content : { <<"a">>, <<"U+00E9">> },
     file_type : FileTypes, last_modified : {ts \in Timestamps : ts.frac = 0 /\ ts.ms <= 1}]

EngineFaultNext ==
    \/ calls < MaxSyncs
         /\ PostSync("p1", EngineUsers, EngineDevices, Batches(EngineEntries, MaxBatch))
    \/ SyncSnapshot("p1")
    \/ SyncSnapshotFails("p1")
    \/ UploadLookup("p1")
    \/ UploadRunUpdate("p1")
    \/ UploadRunInsert("p1")
    \/ UploadSelectUpdated("p1")
    \/ UploadSelectNew("p1")
    \/ SyncRespond("p1")
    \/ SyncComplete("p1")
    \/ SyncCompleteFails("p1")
    \/ SyncMarkFailed("p1")
    \/ SyncMarkFailedFails("p1")

EngineFaultSpec == Init /\ [][EngineFaultNext]_vars

\* Batches that name each file once, with stored ciphertexts getting damaged
\* between the calls.
DistinctNames(b) == \A j, k \in 1..Len(b) : j # k => b[j].filename # b[k].filename

DamageUsers == {"u1"}
DamageDevices == {"d1"}
DamageEntries ==
    [filename : Filenames, content : { <<"a">>, <<"U+00E9">> },
     file_type : FileTypes, last_modified : {ts \in Timestamps : ts.frac = 0 /\ ts.ms <= 1}]

DamageNext ==
    \/ calls < MaxSyncs
         /\ PostSync("p1", DamageUsers, DamageDevices,
                     {b \in Batches(DamageEntries, MaxBatch) : DistinctNames(b)})
    \/ SyncSnapshot("p1")
    \/ UploadLookup("p1")
    \/ UploadRunUpdate("p1")
    \/ UploadRunInsert("p1")
    \/ UploadSelectUpdated("p1")
    \/ UploadSelectNew("p1")
    \/ SyncRespond("p1")
    \/ SyncComplete("p1")
    \/ Free("p1") /\ DamageContent(DamageUsers)

DamageSpec == Init /\ [][DamageNext]_vars

\* Logins of one user from two clients, each naming its device.
DeviceInit ==
    /\ sync_files = {}
    /\ devices = { [id |-> "d1", user_id |-> "u1", name |-> "phone",
                    type |-> "mobile", platform |-> "ios", last_active |-> 0] }
    /\ sync_sessions = {}
    /\ auth_tokens = {}
    /\ pairing_codes = {}
    /\ batch = [p \in Procs |-> Undefined]
    /\ users = [u \in Users |-> [storage_used |-> 0, storage_limit |-> StorageLimit]]
    /\ pc = [p \in Procs |-> "idle"]
    /\ req = [p \in Procs |-> Undefined]
    /\ existingFile = [p \in Procs |-> Undefined]
    /\ stmt = [p \in Procs |-> Undefined]
    /\ result = [p \in Procs |-> NoResult]
    /\ calls = 0

DeviceNext ==
    \E p \in Procs :
        \/ Login(p, {"u1"})
        \/ LoginRejected(p)
        \/ DeviceLookup(p)
        \/ DeviceRunUpdate(p)
        \/ DeviceRunInsert(p)
        \/ DeviceSelect(p)
        \/ TokenCleanup(p)
        \/ TokenInsert(p)
        \/ RemoveDevice(p, {"u1"}, {d.id : d \in devices})
        \/ RemoveDeviceRun(p)

DeviceSpec == DeviceInit /\ [][DeviceNext]_vars

\* One device uploads, another reads, and stored ciphertexts get damaged.
ReadUsers == {"u1"}
ReadContents == { <<"a">>, <<"U+00E9">> }
ReadTimestamps == {ts \in Timestamps : ts.frac = 0}

ReadNext ==
    \/ PostFile("p1", ReadUsers, {"d1"}, Filenames, ReadContents, ReadTimestamps)
    \/ UploadLookup("p1")
    \/ UploadRunUpdate("p1")
    \/ UploadRunInsert("p1")
    \/ UploadSelectUpdated("p1")
    \/ UploadSelectNew("p1")
    \/ DamageContent(ReadUsers)
    \/ DownloadFile("p2", ReadUsers, Filenames)
    \/ GetUserFiles("p2", ReadUsers)

ReadSpec == Init /\ [][ReadNext]_vars

\* Two users with their devices signed in; one caller uploads as a device
\* that is signed in, the other removes devices, lists files and presents
\* tokens.
RemoveDevices ==
    { [id |-> "d1", user_id |-> "u1", name |-> "phone",
       type |-> "mobile", platform |-> "ios", last_active |-> 0],
      [id |-> "d2", user_id |-> "u1", name |-> "laptop",
       type |-> "desktop", platform |-> "ios", last_active |-> 0],
      [id |-> "d3", user_id |-> "u2", name |-> "phone",
       type |-> "mobile", platform |-> "ios", last_active |-> 0] }

RemoveTokens ==
    { [token |-> SignToken(d.user_id, d.id, 0), user_id |-> d.user_id,
       device_id |-> d.id] : d \in RemoveDevices }

RemoveInit ==
    /\ sync_files = {}
    /\ devices = RemoveDevices
    /\ sync_sessions = {}
    /\ auth_tokens = RemoveTokens
    /\ pairing_codes = {}
    /\ batch = [p \in Procs |-> Undefined]
    /\ users = [u \in Users |-> [storage_used |-> 0, storage_limit |-> StorageLimit]]
    /\ pc = [p \in Procs |-> "idle"]
    /\ req = [p \in Procs |-> Undefined]
    /\ existingFile = [p \in Procs |-> Undefined]
    /\ stmt = [p \in Procs |-> Undefined]
    /\ result = [p \in Procs |-> NoResult]
    /\ calls = 0

\* The devices a user can make authenticated requests as.
SignedIn(userId) == {t.device_id : t \in {x \in auth_tokens : x.user_id = userId}}

RemoveNext ==
    \/ PostFile("p1", {"u1"}, SignedIn("u1"), {"f1"}, { <<"a">> },
                {ts \in Timestamps : ts.frac = 0})
    \/ UploadLookup("p1")
    \/ UploadRunUpdate("p1")
    \/ UploadRunInsert("p1")
    \/ UploadSelectUpdated("p1")
    \/ UploadSelectNew("p1")
    \/ RemoveDevice("p2", {"u1"}, {"d1", "d2", "d3"})
    \/ RemoveDeviceRun("p2")
    \/ GetUserFiles("p2", {"u1"})
    \/ VerifyToken("p2", {t.token : t \in RemoveTokens})
    \/ VerifyTouch("p2")

RemoveSpec == RemoveInit /\ [][RemoveNext]_vars

\* Two users, each on a device of their own, working on one file name
\* through every file operation.
UserOf(p) == IF p = "p1" THEN "u1" ELSE "u2"
IsolationDevice(p) == IF p = "p1" THEN "d1" ELSE "d3"
IsolationBatch == 1
IsolationFilenames == {"f1"}
IsolationContents(p) ==
    IF p = "p1" THEN { <<"a">>, <<"a", "b">> } ELSE { <<"a">>, <<"U+00E9">> }
IsolationTimestamps == {ts \in Timestamps : ts.frac = 0 /\ ts.ms <= 1}
IsolationEntries(p) ==
    [filename : IsolationFilenames, content : IsolationContents(p),
     file_type : FileTypes, last_modified : IsolationTimestamps]

IsolationNext ==
    \E p \in Procs :
        \/ PostFile(p, {UserOf(p)}, {IsolationDevice(p)}, IsolationFilenames,
                    IsolationContents(p), IsolationTimestamps)
        \/ UploadLookup(p)
        \/ UploadRunUpdate(p)
        \/ UploadRunInsert(p)
        \/ UploadSelectUpdated(p)
        \/ UploadSelectNew(p)
        \/ PostSync(p, {UserOf(p)}, {IsolationDevice(p)},
                    Batches(IsolationEntries(p), IsolationBatch))
        \/ SyncSnapshot(p)
        \/ SyncRespond(p)
        \/ SyncComplete(p)
        \/ DownloadFile(p, {UserOf(p)}, IsolationFilenames)
        \/ GetUserFiles(p, {UserOf(p)})
        \/ DeleteFile(p, {UserOf(p)}, IsolationFilenames)

IsolationSpec == RemoveInit /\ [][IsolationNext]_vars

\* One caller at a time: uploads of one file by either device and deletes.
\* Until the first delete the uploads carry the latest instant, so that an
\* upload after a delete can be older than the replica that was deleted.
TombstoneTimes ==
    {ts \in Timestamps :
        /\ ts.frac = 0
        /\ pc["p2"] = "idle" => ts.ms = MaxTime}

TombstoneNext ==
    \/ PostFile("p1", {"u1"}, {"d1", "d2"}, {"f1"}, Contents, TombstoneTimes)
    \/ UploadLookup("p1")
    \/ UploadRunUpdate("p1")
    \/ UploadRunInsert("p1")
    \/ UploadSelectUpdated("p1")
    \/ UploadSelectNew("p1")
    \/ Free("p1") /\ DeleteFile("p2", {"u1"}, {"f1"})

TombstoneSpec == Init /\ [][TombstoneNext]_vars

\* A signed-in user asks for pairing codes while two new clients pair.
PairNext ==
    \E p \in Procs :
        \/ GeneratePairingCode(p, {"u1"})
        \/ CodeInsert(p)
        \/ PairDevice(p)
        \/ PairMarkUsed(p)
        \/ DeviceLookup(p)
        \/ DeviceRunUpdate(p)
        \/ DeviceRunInsert(p)
        \/ DeviceSelect(p)
        \/ TokenCleanup(p)
        \/ TokenInsert(p)

PairSpec == DeviceInit /\ [][PairNext]_vars

\* ============================================================ properties
\* Vocabulary of the properties below.
UploadOp(p) == req[p] # Undefined /\ req[p].op = "upload"

\* In this step the call of p returns (or throws).
ReturnsNow(p) == result[p] = NoResult /\ result'[p] # NoResult

\* In this step the call of p returns a Conflict Descriptor.
ConflictReturned(p) == ReturnsNow(p) /\ result'[p].conflict # Undefined

\* In this step the first SELECT of p's uploadFile answers.
LooksUp(p) == pc[p] = "lookup" /\ pc'[p] # "lookup"

\* In this step the UPDATE statement of p's uploadFile executes.
RunsUpdate(p) == pc[p] = "update" /\ pc'[p] = "select_updated"

\* In this step the INSERT statement of p's uploadFile executes and succeeds.
RunsInsert(p) == pc[p] = "insert" /\ pc'[p] = "select_new"

\* The replica p's upload is about, as stored now.
Stored(p) == SelectFile(req[p].userId, Data(p).filename)

SameContent(p) == Stored(p).content_hash = hash(Data(p).content)

StoredAtLeastAsFresh(p) ==
    GetTime(Stored(p).last_modified) >= GetTime(Data(p).last_modified)

\* ---------------------------------------------------------------------
\* C1: for one existing replica, every accepted update (an UPDATE executed
\* by uploadFile) raises the stored version by exactly 1, every other step
\* of an upload (conflict, no-op, lookups) leaves it unchanged, and so the
\* version never decreases.
C1_VersionMonotone ==
    [][\A r \in sync_files : \A r2 \in sync_files' :
          r2.id = r.id =>
            r2.version =
              IF \E p \in Procs : /\ RunsUpdate(p)
                                  /\ stmt[p].user_id = r.user_id
                                  /\ stmt[p].filename = r.filename
              THEN r.version + 1
              ELSE r.version]_vars

\* Two accepted updates of one replica have happened.
C1_Witness == \E r \in sync_files : r.version = 3

\* ---------------------------------------------------------------------
\* C2: uploadFile returns a conflict exactly when a replica exists for
\* (user, filename), the proposed hash differs from the stored one and the
\* stored last_modified is at or after the proposed one (ties conflict).
C2_ConflictExactlyWhen ==
    [][\A p \in Procs :
          ConflictReturned(p) <=>
            /\ LooksUp(p)
            /\ Stored(p) # Undefined
            /\ ~SameContent(p)
            /\ StoredAtLeastAsFresh(p)]_vars

\* A conflict was returned for the same instant written differently.
C2_Witness ==
    \E p \in Procs :
        /\ pc[p] = "done" /\ UploadOp(p)
        /\ result[p].conflict # Undefined
        /\ GetTime(result[p].conflict.local_modified)
             = GetTime(result[p].conflict.remote_modified)
        /\ result[p].conflict.local_modified # result[p].conflict.remote_modified

\* ---------------------------------------------------------------------
\* C3: the step in which uploadFile returns a conflict leaves every row of
\* sync_files as it was and creates none.
C3_ConflictLeavesStore ==
    [][\A p \in Procs : ConflictReturned(p) => sync_files' = sync_files]_vars

\* A conflict was returned while two replicas were stored.
C3_Witness ==
    \E p \in Procs :
        /\ pc[p] = "done" /\ UploadOp(p)
        /\ result[p].conflict # Undefined
        /\ Cardinality(sync_files) = 2

\* ---------------------------------------------------------------------
\* C4: two uploads of one (user, filename) that carry the same instant and
\* different content, racing to create the file: once both have returned,
\* one of the two contents is stored and the other call has returned a
\* Conflict Descriptor whose remote content is the stored content.
C4_NoConflictLost ==
    \A p, q \in Procs :
        ( /\ p # q /\ calls = 2
          /\ pc[p] = "done" /\ pc[q] = "done"
          /\ UploadOp(p) /\ UploadOp(q)
          /\ req[p].userId = req[q].userId
          /\ Data(p).filename = Data(q).filename
          /\ GetTime(Data(p).last_modified) = GetTime(Data(q).last_modified)
          /\ Data(p).content # Data(q).content )
        => \E w \in {p, q} : \E l \in {p, q} \ {w} :
              /\ result[w].threw = "" /\ result[w].success
              /\ Stored(w) # Undefined
              /\ decrypt(Stored(w).content) = Data(w).content
              /\ result[l].conflict # Undefined
              /\ result[l].conflict.remote_content = Data(w).content

\* ---------------------------------------------------------------------
\* C5: an UPDATE of uploadFile never lands on a row other than the one its
\* own SELECT read: a write decided on a stale read is not applied.
C5_NoStaleWrite ==
    [][\A p \in Procs :
          (RunsUpdate(p) /\ Stored(p) # Undefined) => Stored(p) = existingFile[p]]_vars

\* ---------------------------------------------------------------------
\* C6: uploading content whose hash equals the stored hash with a
\* last_modified at or before the stored one returns the stored replica
\* with success and no conflict, and leaves sync_files as it was (so that
\* repeating the call meets the same state and does the same).
C6_NoOp ==
    [][\A p \in Procs :
          ( /\ LooksUp(p)
            /\ Stored(p) # Undefined
            /\ SameContent(p)
            /\ StoredAtLeastAsFresh(p) )
          => /\ sync_files' = sync_files
             /\ result'[p] = Returned(TRUE, Stored(p), Undefined)]_vars

\* An upload returned a replica it neither created nor wrote: same content,
\* same instant, written differently from the stored timestamp.
C6_Witness ==
    \E p \in Procs :
        /\ pc[p] = "done" /\ UploadOp(p)
        /\ result[p].threw = "" /\ result[p].success
        /\ result[p].file \in sync_files
        /\ result[p].file.id # FileId(p)
        /\ result[p].file.content_hash = hash(Data(p).content)
        /\ result[p].file.last_modified # Data(p).last_modified
        /\ GetTime(result[p].file.last_modified) = GetTime(Data(p).last_modified)

\* ---------------------------------------------------------------------
\* C7 as stated: identical content with a strictly newer last_modified is
\* never reported as a conflict and does not bump the replica's version.
C7_SameContentNoBump ==
    [][\A p \in Procs :
          /\ ( LooksUp(p) /\ Stored(p) # Undefined /\ SameContent(p)
               /\ ~StoredAtLeastAsFresh(p) ) => ~ConflictReturned(p)
          /\ ( RunsUpdate(p) /\ existingFile[p].content_hash = stmt[p].content_hash )
             => \A r \in sync_files : \A r2 \in sync_files' :
                   r2.id = r.id => r2.version = r.version]_vars

\* C7 as the code has it: identical content with a strictly newer
\* last_modified is never reported as a conflict; it is written like any
\* newer upload: the UPDATE is issued, and when it executes the version
\* goes up by 1 and last_modified and device id become the caller's.
C7_SameContentRewritten ==
    [][\A p \in Procs :
          /\ ( LooksUp(p) /\ Stored(p) # Undefined /\ SameContent(p)
               /\ ~StoredAtLeastAsFresh(p) )
             => /\ ~ConflictReturned(p)
                /\ pc'[p] = "update"
                /\ sync_files' = sync_files
          /\ ( RunsUpdate(p) /\ existingFile[p].content_hash = stmt[p].content_hash )
             => LET r2 == SelectFrom(sync_files', req[p].userId, Data(p).filename)
                IN  /\ r2.version = existingFile[p].version + 1
                    /\ r2.content_hash = existingFile[p].content_hash
                    /\ r2.last_modified = Data(p).last_modified
                    /\ r2.device_id = req[p].deviceId]_vars

\* The UPDATE of an upload with identical content has just executed.
C7_Witness ==
    \E p \in Procs :
        /\ pc[p] = "select_updated"
        /\ existingFile[p].content_hash = stmt[p].content_hash
        /\ Stored(p).version = existingFile[p].version + 1

\* ---------------------------------------------------------------------
\* C8: when a replica exists, the proposed content differs and the proposed
\* last_modified is strictly greater, uploadFile accepts: it issues the
\* UPDATE, after which the stored hash is the hash of the proposed content,
\* the content decrypts to it, last_modified is the proposed timestamp,
\* device id is the caller's and version is the previous version plus 1;
\* the call then returns that row.
C8_Accept ==
    [][\A p \in Procs :
          /\ ( LooksUp(p) /\ Stored(p) # Undefined /\ ~SameContent(p)
               /\ ~StoredAtLeastAsFresh(p) )
             => pc'[p] = "update" /\ result'[p] = NoResult
          /\ ( RunsUpdate(p) /\ existingFile[p].content_hash # stmt[p].content_hash )
             => LET r2 == SelectFrom(sync_files', req[p].userId, Data(p).filename)
                IN  /\ r2.id = existingFile[p].id
                    /\ r2.content_hash = hash(Data(p).content)
                    /\ decrypt(r2.content) = Data(p).content
                    /\ r2.last_modified = Data(p).last_modified
                    /\ r2.device_id = req[p].deviceId
                    /\ r2.version = existingFile[p].version + 1
          /\ ( pc[p] = "select_updated" /\ ReturnsNow(p) )
             => result'[p] = Returned(TRUE, Stored(p), Undefined)]_vars

\* The UPDATE of a newer upload with different content, sent by another
\* device than the one that wrote the row before, has just executed.
C8_Witness ==
    \E p \in Procs :
        /\ pc[p] = "select_updated"
        /\ existingFile[p].content_hash # stmt[p].content_hash
        /\ existingFile[p].device_id # req[p].deviceId
        /\ Stored(p).device_id = req[p].deviceId
        /\ Stored(p).version = existingFile[p].version + 1

\* ---------------------------------------------------------------------
\* C9: a single-file upload that the quota check (validateStorage on the
\* request body) rejects creates and modifies no row of sync_files: with
\* one caller at a time, no INSERT or UPDATE of an upload executes in a
\* state where the check on its body says the limit would be exceeded.
C9_QuotaGatePrecedesUpload ==
    [][\A p \in Procs :
          ( /\ UploadOp(p)
            /\ RunsInsert(p) \/ RunsUpdate(p)
            /\ sync_files' # sync_files )
          => ~validateStorage(req[p].userId, Data(p))]_vars

\* ---------------------------------------------------------------------
\* C10: a batch whose files' plaintext sizes, each counted in full, sum to
\* more than limit minus used is rejected before any file is processed: no
\* INSERT or UPDATE of a batch executes when the check on the batch body
\* says the limit would be exceeded.
C10_QuotaGatePrecedesBatch ==
    [][\A p \in Procs :
          ( /\ req[p] # Undefined /\ req[p].op = "sync"
            /\ RunsInsert(p) \/ RunsUpdate(p)
            /\ sync_files' # sync_files )
          => ~validateStorage(req[p].userId, [files |-> req[p].files])]_vars

\* ---------------------------------------------------------------------
\* Vocabulary of the batch properties.
SyncOp(p) == req[p] # Undefined /\ req[p].op = "sync"

\* The Sync Session of p's call, in a sessions table.
SessionIn(table, p) ==
    LET rows == {r \in table : r.id = req[p].callNo}
    IN  IF rows = {} THEN Undefined ELSE CHOOSE r \in rows : TRUE

\* The row the snapshot of p's batch holds for a file name.
Snap(p, filename) == SelectFrom(batch[p].serverFiles, req[p].userId, filename)

\* Proposed file k of p's batch meets a stored replica whose ciphertext does
\* not decrypt, on the branch of uploadFile that decrypts it.
Faulty(p, k) ==
    LET s == Snap(p, req[p].files[k].filename)
    IN  /\ s # Undefined
        /\ ~CanDecrypt(s.content)
        /\ Decision(s, req[p].files[k]) = "conflict"

\* What proposed file k of p's batch must have left behind when the batch
\* completes, in the store and in the response about to be returned.
Processed(p, k) ==
    LET f == req[p].files[k]
        s == Snap(p, f.filename)
        d == Decision(s, f)
        now == SelectFile(req[p].userId, f.filename)
    IN  /\ d = "insert" => /\ now # Undefined /\ now.id = <<req[p].callNo, k>>
                           /\ now.version = 1
                           /\ now.content_hash = hash(f.content)
        /\ d = "update" => /\ now.version = s.version + 1
                           /\ now.content_hash = hash(f.content)
                           /\ now.last_modified = f.last_modified
        /\ d = "noop" => now = s
        /\ d = "conflict" =>
              /\ now = s
              /\ \E c \in 1..Len(batch[p].conflicts) :
                    /\ batch[p].conflicts[c].filename = f.filename
                    /\ batch[p].conflicts[c].remote_content = decrypt(s.content)
        /\ (s # Undefined /\ d # "conflict" /\ CanDecrypt(s.content))
              => \E e \in batch[p].files : e.filename = f.filename

C12_SessionLifecycle ==
    [][/\ \A r2 \in sync_sessions' :
            (\A r \in sync_sessions : r.id # r2.id) => r2.status = "active"
       /\ \A r \in sync_sessions : \A r2 \in sync_sessions' :
            r2.id = r.id =>
              \/ r2 = r
              \/ r.status = "active" /\ r2.status \in {"completed", "failed"}]_vars

\* One session has ended completed and a later one failed.
C12_Witness ==
    \E r, r2 \in sync_sessions :
        r.id < r2.id /\ r.status = "completed" /\ r2.status = "failed"

\* ---------------------------------------------------------------------
\* C13: once a syncFiles call that created its session has returned or
\* thrown, the session is completed or failed, never active, whichever of
\* its storage statements were rejected.
C13_SessionClosed ==
    \A p \in Procs :
        (SyncOp(p) /\ pc[p] = "done" /\ SessionIn(sync_sessions, p) # Undefined)
        => SessionIn(sync_sessions, p).status \in {"completed", "failed"}

C15_Scenario ==
    [][\A p \in Procs : (UploadOp(p) /\ ReturnsNow(p)) =>
          /\ req[p].callNo = 1
             => /\ result'[p].threw = "" /\ result'[p].success
                /\ result'[p].conflict = Undefined
                /\ result'[p].file.version = 1
                /\ decrypt(result'[p].file.content) = Data(p).content
                /\ sync_files' = {result'[p].file}
          /\ (req[p].callNo = 2 /\ ~SameContent(p))
             => /\ result'[p].conflict # Undefined /\ ~result'[p].success
                /\ result'[p].conflict.remote_version = 1
                /\ sync_files' = sync_files
                /\ Stored(p).version = 1
                /\ GetTime(Stored(p).last_modified) = 1
          /\ (req[p].callNo = 3 /\ existingFile[p] # Undefined
                /\ existingFile[p].content_hash # hash(Data(p).content))
             => /\ result'[p].threw = "" /\ result'[p].success
                /\ result'[p].conflict = Undefined
                /\ result'[p].file.version = 2
                /\ decrypt(result'[p].file.content) = Data(p).content
                /\ result'[p].file.last_modified = Data(p).last_modified
                /\ sync_files' = {result'[p].file}]_vars

\* The three uploads are over: the second got its conflict against version
\* 1, the third was accepted with content different from both others.
C15_Witness ==
    /\ pc["p1"] = "done" /\ pc["p2"] = "done"
    /\ req["p1"].callNo = 3 /\ req["p2"].callNo = 2
    /\ result["p2"].conflict # Undefined
    /\ result["p2"].conflict.remote_version = 1
    /\ result["p2"].conflict.remote_content # req["p2"].data.content
    /\ result["p1"].success /\ result["p1"].file.version = 2
    /\ req["p1"].data.content # req["p2"].data.content
    /\ req["p1"].data.content # result["p2"].conflict.remote_content
    /\ sync_files = {result["p1"].file}

\* ---------------------------------------------------------------------
\* C16: quota accounting follows accepted writes.  For a user whose store
\* holds one accepted file, with users.storage_used brought up to date with
\* it, the upload of a new file whose plaintext size added to the usage
\* exceeds the limit fails with STORAGE_LIMIT_EXCEEDED and creates no
\* replica: its INSERT never executes.
C16_QuotaFollowsWrites ==
    [][\A p \in Procs :
          ( /\ UploadOp(p) /\ pc[p] = "insert"
            /\ Cardinality({r \in sync_files : r.user_id = req[p].userId}) = 1
            /\ users[req[p].userId].storage_used
                 = calculateUserStorageUsage(req[p].userId)
            /\ users[req[p].userId].storage_used + ByteLength(Data(p).content)
                 > users[req[p].userId].storage_limit )
          => /\ sync_files' = sync_files
             /\ result'[p] = Threw("STORAGE_LIMIT_EXCEEDED")]_vars

\* ---------------------------------------------------------------------
\* C17: a batch of two files, one stored with identical content and a
\* timestamp not newer than the stored one, the other not stored: the
\* response returned has the unchanged file (stored content, stored
\* version) in files and an empty conflicts list, the new file is stored at
\* version 1 with the proposed content, and the session is completed with
\* two files synced and none failed.
C17_UnchangedAndNew ==
    [][\A p \in Procs :
          ( /\ SyncOp(p) /\ pc[p] = "respond" /\ pc'[p] = "done"
            /\ Len(req[p].files) = 2 )
          => \A j, k \in 1..2 :
                LET f == req[p].files[j]
                    g == req[p].files[k]
                    s == Snap(p, f.filename)
                IN  ( /\ j # k
                      /\ s # Undefined
                      /\ s.content_hash = hash(f.content)
                      /\ GetTime(s.last_modified) >= GetTime(f.last_modified)
                      /\ Snap(p, g.filename) = Undefined )
                    => /\ result'[p].threw = ""
                       /\ result'[p].response.conflicts = <<>>
                       /\ \E e \in result'[p].response.files :
                             /\ e.filename = f.filename /\ e.id = s.id
                             /\ e.content = f.content
                             /\ e.version = s.version
                       /\ LET n == SelectFrom(sync_files', req[p].userId, g.filename)
                          IN  /\ n # Undefined
                              /\ n.id = <<req[p].callNo, k>>
                              /\ n.version = 1
                              /\ decrypt(n.content) = g.content
                       /\ SessionIn(sync_sessions', p).status = "completed"
                       /\ SessionIn(sync_sessions', p).files_synced = 2
                       /\ SessionIn(sync_sessions', p).files_failed = 0]_vars

\* Such a batch has returned: its first file was stored by an earlier call
\* and comes back in files, its second file was created by this call.
C17_Witness ==
    \E p \in Procs :
        /\ SyncOp(p) /\ pc[p] = "done" /\ result[p].threw = ""
        /\ Len(req[p].files) = 2
        /\ result[p].response.conflicts = <<>>
        /\ LET f == req[p].files[1]
               s == SelectFile(req[p].userId, f.filename)
               n == SelectFile(req[p].userId, req[p].files[2].filename)
           IN  /\ s # Undefined /\ s.id[1] < req[p].callNo
               /\ s.content_hash = hash(f.content)
               /\ \E e \in result[p].response.files :
                     e.id = s.id /\ e.version = s.version /\ e.content = f.content
               /\ n # Undefined /\ n.id = <<req[p].callNo, 2>> /\ n.version = 1
               /\ \A e \in result[p].response.files : e.id # n.id

\* ---------------------------------------------------------------------
\* C18: in every reachable state, concurrent first uploads of one file
\* name by two devices of one user included, sync_files holds at most one
\* row per (user_id, filename).
C18_OneReplicaPerName ==
    \A r, r2 \in sync_files :
        (r.user_id = r2.user_id /\ r.filename = r2.filename) => r = r2

\* Two devices raced to create one file: both saw no row, one INSERT was
\* applied and the other was refused by the uniqueness constraint.
C18_Witness ==
    \E p, q \in Procs :
        /\ p # q /\ UploadOp(p) /\ UploadOp(q)
        /\ pc[p] = "done" /\ result[p].threw = "UNIQUE constraint failed"
        /\ req[p].deviceId # req[q].deviceId
        /\ \E r \in sync_files : r.id = FileId(q) /\ r.filename = Data(p).filename
        /\ Cardinality(sync_files) = 1

\* ---------------------------------------------------------------------
\* C19: in every reachable state, under any interleaving of uploads, the
\* content of each stored row decrypts and its content_hash is the hash of
\* the plaintext it decrypts to.
C19_HashMatchesContent ==
    \A r \in sync_files :
        /\ CanDecrypt(r.content)
        /\ r.content_hash = hash(decrypt(r.content))

\* An UPDATE that changed the content of a row created by another call has
\* executed while the other caller's UPDATE is still to come.
C19_Witness ==
    \E p, q \in Procs :
        /\ p # q
        /\ pc[p] = "select_updated" /\ pc[q] = "update"
        /\ existingFile[p].content_hash # stmt[p].content_hash
        /\ stmt[q].content_hash # stmt[p].content_hash
        /\ \E r \in sync_files :
              /\ r.id # FileId(p)
              /\ r.device_id = req[p].deviceId
              /\ decrypt(r.content) = Data(p).content

\* ---------------------------------------------------------------------
\* C20: device A's upload of f has been accepted and the replica of f is
\* still as that upload wrote and returned it; a batch that another device B of the same
\* user started after the upload had returned, and that does not propose f,
\* returns f in its files list with A's content, the version A's upload
\* returned and the name of A's device.
C20_Propagates ==
    [][\A b \in Procs : \A a \in Procs \ {b} :
          ( /\ SyncOp(b) /\ pc[b] = "respond" /\ pc'[b] = "done"
            /\ UploadOp(a) /\ pc[a] = "done"
            /\ req[a].callNo < req[b].callNo
            /\ req[a].userId = req[b].userId
            /\ req[a].deviceId # req[b].deviceId
            /\ result[a].threw = "" /\ result[a].success
            /\ SelectFile(req[a].userId, req[a].data.filename) = result[a].file
            /\ result[a].file.device_id = req[a].deviceId
            /\ result[a].file.content_hash = hash(req[a].data.content)
            /\ \A k \in 1..Len(req[b].files) :
                  req[b].files[k].filename # req[a].data.filename )
          => /\ result'[b].threw = ""
             /\ \E e \in result'[b].response.files :
                   /\ e.id = result[a].file.id
                   /\ e.filename = req[a].data.filename
                   /\ e.content = req[a].data.content
                   /\ e.version = result[a].file.version
                   /\ e.last_modified = result[a].file.last_modified
                   /\ e.device_name = getDeviceName(result[a].file.device_id)]_vars

\* B's batch, which stored a file of its own, has returned the replica that
\* A's earlier upload had brought to version 2.
C20_Witness ==
    \E b \in Procs : \E a \in Procs \ {b} :
        /\ SyncOp(b) /\ pc[b] = "done" /\ result[b].threw = ""
        /\ UploadOp(a) /\ pc[a] = "done"
        /\ req[a].callNo < req[b].callNo
        /\ req[a].deviceId # req[b].deviceId
        /\ result[a].success /\ result[a].file.version = 2
        /\ result[a].file.device_id = req[a].deviceId
        /\ Len(req[b].files) > 0
        /\ \E r \in sync_files : r.id[1] = req[b].callNo
        /\ \E e \in result[b].response.files :
              /\ e.id = result[a].file.id /\ e.version = 2
              /\ e.content = req[a].data.content

\* ---------------------------------------------------------------------
\* C21: the files list of a returned syncFiles response holds every row of
\* the snapshot taken at the start of the batch whose filename is not in
\* the conflicts list, and no file whose filename is in the conflicts list.
C21_ResponseFiles ==
    [][\A p \in Procs :
          ( /\ SyncOp(p) /\ pc[p] = "respond" /\ pc'[p] = "done"
            /\ result'[p].threw = "" )
          => LET resp == result'[p].response
                 InConflicts(name) ==
                    \E c \in 1..Len(resp.conflicts) : resp.conflicts[c].filename = name
             IN  /\ \A r \in batch[p].serverFiles :
                       ~InConflicts(r.filename)
                       => \E e \in resp.files : e.id = r.id /\ e.filename = r.filename
                 /\ \A e \in resp.files : ~InConflicts(e.filename)]_vars

\* ---------------------------------------------------------------------
\* C22: every Conflict Descriptor uploadFile returns has local_version 1,
\* remote_version the stored row's version, local_modified the proposed
\* timestamp as sent, remote_modified the stored timestamp as stored, and
\* remote_content the plaintext the stored content decrypts to.
C22_Descriptor ==
    [][\A p \in Procs :
          ConflictReturned(p) =>
            /\ DOMAIN result'[p].conflict =
                  {"filename", "local_version", "remote_version", "local_modified",
                   "remote_modified", "remote_content"}
            /\ result'[p].conflict.filename = Data(p).filename
            /\ result'[p].conflict.local_version = 1
            /\ result'[p].conflict.remote_version = Stored(p).version
            /\ result'[p].conflict.local_modified = Data(p).last_modified
            /\ result'[p].conflict.remote_modified = Stored(p).last_modified
            /\ result'[p].conflict.remote_content = decrypt(Stored(p).content)
            /\ hash(result'[p].conflict.remote_content) = Stored(p).content_hash]_vars

\* A conflict was returned against a replica at version 2, sent by the
\* other device, with a timestamp older than the stored one.
C22_Witness ==
    \E p \in Procs :
        /\ pc[p] = "done" /\ UploadOp(p)
        /\ result[p].conflict # Undefined
        /\ result[p].conflict.remote_version = 2
        /\ result[p].conflict.remote_content \in SeqContents \ {req[p].data.content}
        /\ GetTime(result[p].conflict.local_modified)
             < GetTime(result[p].conflict.remote_modified)
        /\ Stored(p).device_id # req[p].deviceId

\* ---------------------------------------------------------------------
\* C24: the storage-used counter converges to the sum of the sizes of the
\* user's stored replicas: in every quiescent state (no call in progress)
\* reached after accepted uploads, users.storage_used equals that sum.
C24_CounterConverges ==
    (\A p \in Procs : Free(p))
    => \A u \in DOMAIN users : users[u].storage_used = calculateUserStorageUsage(u)

\* ---------------------------------------------------------------------
\* C25: deleteFile(user, filename) returns true exactly when a row for
\* (user, filename) existed and this call removed it; afterwards no row
\* exists for that key, every other row is as it was, and after a false
\* result the store is unchanged.
C25_DeleteResult ==
    [][\A p \in Procs :
          ( /\ req'[p] # Undefined /\ req'[p].op = "delete"
            /\ calls' = calls + 1 /\ req'[p].callNo = calls' )
          => LET rows == {r \in sync_files : /\ r.user_id = req'[p].userId
                                             /\ r.filename = req'[p].filename}
             IN  /\ result'[p].threw = ""
                 /\ result'[p].success = (rows # {})
                 /\ sync_files' = sync_files \ rows
                 /\ SelectFrom(sync_files', req'[p].userId, req'[p].filename) = Undefined
                 /\ ~result'[p].success => sync_files' = sync_files]_vars

\* Both callers have deleted the same file: one removed it and got true,
\* the other found nothing and got false.
C25_Witness ==
    \E p, q \in Procs :
        /\ p # q /\ pc[p] = "done" /\ pc[q] = "done"
        /\ req[p].op = "delete" /\ req[q].op = "delete"
        /\ req[p].filename = req[q].filename
        /\ req[p].callNo < req[q].callNo
        /\ result[p].success /\ ~result[q].success

\* ---------------------------------------------------------------------
\* C27: an uploadFile call that returns without throwing returns exactly
\* one of a stored replica and a Conflict Descriptor, in every
\* interleaving with uploads and deletes of the same file name; success is
\* never reported without a replica.
C27_ReplicaOrConflict ==
    \A p \in Procs :
        (UploadOp(p) /\ pc[p] = "done" /\ result[p].threw = "")
        => /\ (result[p].file # Undefined) # (result[p].conflict # Undefined)
           /\ result[p].success => result[p].file # Undefined

\* ---------------------------------------------------------------------
\* Vocabulary of the storage properties.
StorageOp(p, op) == req[p] # Undefined /\ req[p].op = op

\* In this step p calls the StorageService method op.
CallsNow(p, op) ==
    /\ calls' = calls + 1
    /\ req'[p] # Undefined /\ req'[p].op = op /\ req'[p].callNo = calls'

\* ---------------------------------------------------------------------
\* C23: checkStorageLimit allows a write of additionalBytes exactly when
\* used + additionalBytes <= limit, with used and limit as stored for the
\* user when it is called; a write that fills the quota exactly is allowed.
C23_AllowedIffFits ==
    [][\A p \in Procs :
          ( /\ CallsNow(p, "checkStorageLimit")
            /\ req'[p].userId \in DOMAIN users )
          => LET u == users[req'[p].userId]
             IN  /\ result'[p].threw = ""
                 /\ result'[p].value.allowed
                      <=> (u.storage_used + req'[p].additionalBytes <= u.storage_limit)
                 /\ (u.storage_used + req'[p].additionalBytes = u.storage_limit)
                      => result'[p].value.allowed]_vars

\* A write that fills a partly used quota exactly has been allowed.
C23_Witness ==
    \E p \in Procs :
        /\ StorageOp(p, "checkStorageLimit") /\ pc[p] = "done"
        /\ req[p].userId \in DOMAIN users
        /\ users[req[p].userId].storage_used > 0
        /\ req[p].additionalBytes > 0
        /\ users[req[p].userId].storage_used + req[p].additionalBytes
             = users[req[p].userId].storage_limit
        /\ result[p].threw = "" /\ result[p].value.allowed

\* ---------------------------------------------------------------------
\* C28: getUserStorageInfo for a user that does not exist fails with an
\* error that differs from the one it fails with when its statement is
\* rejected by the database.
C28_UserNotFound ==
    \A p \in Procs :
        ( /\ StorageOp(p, "getUserStorageInfo") /\ pc[p] = "done"
          /\ req[p].userId \notin DOMAIN users
          /\ "rejected" \notin DOMAIN req[p] )
        => /\ result[p].threw # ""
           /\ result[p] # StorageCalculationError("Failed to get storage info")

\* ---------------------------------------------------------------------
\* C30: the storageInfo carried by STORAGE_LIMIT_EXCEEDED is the usage that
\* would result from the rejected write: its used is the stored used plus
\* the size change, and its available is max(0, limit - used) for that
\* same used.
C30_SnapshotThatWouldResult ==
    [][\A p \in Procs :
          ( /\ CallsNow(p, "validateStorageForFile")
            /\ result'[p].threw = "Storage limit exceeded" )
          => LET u == users[req'[p].userId]
                 info == result'[p].storageInfo
                 diff == info.limit - info.used
             IN  /\ info.used = u.storage_used
                                 + ByteLength(req'[p].content) - req'[p].existingFileSize
                 /\ info.limit = u.storage_limit
                 /\ info.available = IF diff > 0 THEN diff ELSE 0]_vars

\* C26: in every reachable state a user has at most one device per display
\* name: a login that names an existing device of the user updates it and
\* creates none, also when two such logins run concurrently.
C26_OneDevicePerName ==
    \A d1 \in devices, d2 \in devices :
        (d1.user_id = d2.user_id /\ d1.name = d2.name) => d1.id = d2.id

\* The stored rows a read that starts in this step is about.
RowsRead(p) ==
    {r \in sync_files :
        /\ r.user_id = req'[p].userId
        /\ req'[p].op = "downloadFile" => r.filename = req'[p].filename}

\* C29: a downloadFile or getUserFiles that reads a stored replica whose
\* content cannot be decrypted ends in an error; it does not return that
\* replica with substituted or empty content as a success.
C29_DecryptionSurfaced ==
    [][\A p \in Procs :
          (/\ CallsNow(p, "downloadFile") \/ CallsNow(p, "getUserFiles")
           /\ \E r \in RowsRead(p) : ~CanDecrypt(r.content))
          => result'[p].threw # ""]_vars

\* ---------------------------------------------------------------------
\* C31: a replica's stored last_modified never decreases: under any
\* interleaving of uploadFile calls on one (user, filename), each write that
\* changes the replica carries a last_modified strictly greater than the
\* value it replaces.
C31_LastModifiedIncreases ==
    [][\A r \in sync_files : \A r2 \in sync_files' :
          (r2.id = r.id /\ r2 # r)
          => GetTime(r2.last_modified) > GetTime(r.last_modified)]_vars

\* ---------------------------------------------------------------------
\* Entries of p's batch before the current one that name the same file.
EarlierSame(p) ==
    {j \in 1..(batch[p].i - 1) : req[p].files[j].filename = Data(p).filename}

\* p's batch is at the first SELECT of an entry whose file the snapshot of
\* the batch does not hold, and the SELECT answers in this step.
LooksUpAbsent(p) ==
    /\ SyncOp(p) /\ pc[p] = "lookup"
    /\ <<pc[p], batch[p]>>' # <<pc[p], batch[p]>>
    /\ Snap(p, Data(p).filename) = Undefined

\* C32: within one batch each proposed file is decided against the live
\* store, not the snapshot: of two entries for one filename that was absent
\* at the start, the first is inserted at version 1, and the second is
\* decided against the replica the first created (conflict, no-op, or an
\* UPDATE to version 2) and is never inserted again.
C32_DecidedAgainstLiveStore ==
    [][\A p \in Procs :
          /\ (LooksUpAbsent(p) /\ EarlierSame(p) = {}) => pc'[p] = "insert"
          /\ (SyncOp(p) /\ RunsInsert(p))
             => /\ EarlierSame(p) = {}
                /\ SelectFrom(sync_files', req[p].userId, Data(p).filename).version = 1
          /\ (LooksUpAbsent(p) /\ EarlierSame(p) # {})
             => LET live == Stored(p)
                    d == Decision(live, Data(p))
                IN  /\ live # Undefined
                    /\ \E j \in EarlierSame(p) : live.id = <<req[p].callNo, j>>
                    /\ d # "insert" /\ pc'[p] # "insert"
                    /\ sync_files' = sync_files
                    /\ d = "update" <=> pc'[p] = "update"
                    /\ d = "conflict"
                       <=> Len(batch'[p].conflicts) = Len(batch[p].conflicts) + 1
                    /\ d = "noop"
                       <=> batch'[p].filesSucceeded = batch[p].filesSucceeded + 1
          /\ ( /\ SyncOp(p) /\ RunsUpdate(p)
               /\ Snap(p, Data(p).filename) = Undefined
               /\ Cardinality(EarlierSame(p)) = 1 )
             => SelectFrom(sync_files', req[p].userId, Data(p).filename).version = 2]_vars

\* The second entry for a file the batch created has just been written as
\* version 2.
C32_Witness ==
    \E p \in Procs :
        /\ SyncOp(p) /\ pc[p] = "select_updated"
        /\ Snap(p, Data(p).filename) = Undefined
        /\ Cardinality(EarlierSame(p)) = 1
        /\ Stored(p).version = 2

\* ---------------------------------------------------------------------
\* C33: with no concurrent writers, every entry of the files list a batch
\* returns has the content and version of the replica stored for that
\* filename at the moment the batch returns, files the same batch has just
\* updated included.
C33_ResponseIsCurrent ==
    [][\A p \in Procs :
          (SyncOp(p) /\ ReturnsNow(p) /\ result'[p].threw = "")
          => \A e \in result'[p].response.files :
                LET now == SelectFrom(sync_files', req[p].userId, e.filename)
                IN  /\ now # Undefined
                    /\ CanDecrypt(now.content)
                    /\ e.content = decrypt(now.content)
                    /\ e.version = now.version]_vars

\* ---------------------------------------------------------------------
\* C34: when a Sync Session is closed as completed, files_synced plus
\* files_failed equals the number of files proposed in the batch: each
\* proposed file is counted exactly once.
C34_CountsAddUp ==
    [][\A p \in Procs :
          (SyncOp(p) /\ ReturnsNow(p) /\ result'[p].threw = "")
          => LET session == SessionIn(sync_sessions', p)
             IN  /\ session.status = "completed"
                 /\ session.files_synced + session.files_failed
                       = Len(req[p].files)]_vars

\* ---------------------------------------------------------------------
\* In this step a statement of p's removeDevice executes.
RemovesNow(p) ==
    \/ CallsNow(p, "removeDevice")
    \/ StorageOp(p, "removeDevice") /\ pc[p] = "removeDevice" /\ pc'[p] = "done"

\* C35: removing a device does not delete or modify any file replica: the
\* replicas the removed device wrote last stay stored for the user.
C35_RemoveKeepsReplicas ==
    [][\A p \in Procs : RemovesNow(p) => sync_files' = sync_files]_vars

\* ---------------------------------------------------------------------
\* C39: removeDevice(userId, deviceId) with a device that does not belong to
\* userId changes nothing: the device and its auth tokens, and with them its
\* owner's ability to authenticate, are left as they were.
C39_ForeignRemoveChangesNothing ==
    [][\A p \in Procs :
          ( /\ RemovesNow(p)
            /\ \E d \in devices : /\ d.id = req'[p].deviceId
                                  /\ d.user_id # req'[p].userId )
          => /\ devices' = devices
             /\ auth_tokens' = auth_tokens]_vars

\* ---------------------------------------------------------------------
\* In this step the call of p starts, moves on or returns.
Moves(p) ==
    <<pc[p], req[p], result[p], batch[p], stmt[p]>>'
        # <<pc[p], req[p], result[p], batch[p], stmt[p]>>

\* The rows of a table that belong to users other than u.
OfOthers(table, u) == {r \in table : r.user_id # u}

\* A Conflict Descriptor describes the replica u has stored under its name.
DescribesOwn(conflict, u) ==
    \E r \in sync_files :
        /\ r.user_id = u /\ r.filename = conflict.filename
        /\ conflict.remote_content = decrypt(r.content)
        /\ conflict.remote_version = r.version

\* What the call of p hands back in this step holds replicas of u only.
ReturnsOwn(p, u) ==
    LET op == req'[p].op
        out == result'[p]
    IN  /\ (op \in {"upload", "delete"} /\ out.file # Undefined)
           => out.file.user_id = u
        /\ (op \in {"upload", "delete"} /\ out.conflict # Undefined)
           => DescribesOwn(out.conflict, u)
        /\ (op = "downloadFile" /\ out.file # Null) => out.file.user_id = u
        /\ op = "getUserFiles" => \A f \in out.files : f.user_id = u
        /\ op = "sync"
           => /\ \A e \in out.response.files :
                    \E r \in batch[p].serverFiles : r.id = e.id /\ r.user_id = u
              /\ \A k \in 1..Len(out.response.conflicts) :
                    DescribesOwn(out.response.conflicts[k], u)

\* C36: file operations are isolated per user: uploadFile, syncFiles,
\* downloadFile, getUserFiles and deleteFile called for user U never return,
\* create, modify or delete a replica of another user, also when both users
\* use the same filename.
C36_UserIsolation ==
    [][\A p \in Procs :
          Moves(p)
          => LET u == req'[p].userId
             IN  /\ OfOthers(sync_files', u) = OfOthers(sync_files, u)
                 /\ \A r \in sync_files' \ sync_files : r.user_id = u
                 /\ (batch'[p] # Undefined)
                    => \A r \in batch'[p].serverFiles : r.user_id = u
                 /\ (ReturnsNow(p) /\ result'[p].threw = "") => ReturnsOwn(p, u)]_vars

\* Both users hold a replica named f1 and a batch of one of them has
\* returned files.
C36_Witness ==
    /\ \A u \in Users : SelectFile(u, "f1") # Undefined
    /\ \E p \in Procs :
          /\ SyncOp(p) /\ pc[p] = "done" /\ result[p].threw = ""
          /\ result[p].response.files # {}

\* ---------------------------------------------------------------------
\* C37: delete leaves no tombstone: after deleteFile(user, filename)
\* succeeds no row is stored for the name, and the next upload of that
\* filename by any device is accepted as a new file at version 1 whatever
\* its last_modified, also when it is older than that of the deleted replica.
C37_NoTombstone ==
    [][\A p \in Procs :
          /\ (CallsNow(p, "delete") /\ result'[p].success)
             => SelectFrom(sync_files', req'[p].userId, req'[p].filename) = Undefined
          /\ (UploadOp(p) /\ LooksUp(p) /\ Stored(p) = Undefined)
             => pc'[p] = "insert" /\ sync_files' = sync_files
          /\ (UploadOp(p) /\ pc[p] = "insert" /\ pc'[p] # "insert")
             => /\ RunsInsert(p)
                /\ LET r == SelectFrom(sync_files', req[p].userId, Data(p).filename)
                   IN  /\ r.version = 1
                       /\ r.last_modified = Data(p).last_modified
                       /\ r.content_hash = hash(Data(p).content)
                       /\ r.device_id = req[p].deviceId
          /\ (UploadOp(p) /\ pc[p] = "select_new" /\ ReturnsNow(p))
             => /\ result'[p].success /\ result'[p].conflict = Undefined
                /\ result'[p].file.version = 1]_vars

\* The first call stored the file at the latest instant, the second deleted
\* it, and the third, with an older last_modified, has been inserted.
C37_Witness ==
    /\ calls = 3
    /\ req["p2"] # Undefined /\ req["p2"].op = "delete" /\ req["p2"].callNo = 2
    /\ result["p2"].success
    /\ UploadOp("p1") /\ req["p1"].callNo = 3 /\ pc["p1"] = "select_new"
    /\ GetTime(Data("p1").last_modified) < MaxTime
    /\ Stored("p1").version = 1

\* ---------------------------------------------------------------------
\* The pairDevice call of p has returned a device and a token.
Paired(p) ==
    /\ StorageOp(p, "pairDevice") /\ pc[p] = "done"
    /\ result[p].threw = ""

\* C38: a pairing code is single-use: of the pairDevice calls made with one
\* generated code at most one succeeds, also when two of them run
\* concurrently; and once generatePairingCode has returned, every code
\* issued earlier to that user is rejected (it is marked used).
C38_SingleUse ==
    /\ \A p, q \in Procs :
          (p # q /\ Paired(p) /\ Paired(q)) => req[p].code # req[q].code
    /\ \A p \in Procs :
          ( /\ StorageOp(p, "generatePairingCode") /\ pc[p] = "done"
            /\ result[p].threw = ""
            /\ \A q \in Procs \ {p} :
                  StorageOp(q, "generatePairingCode") => req[q].callNo < req[p].callNo )
          => \A r \in pairing_codes :
                (r.user_id = req[p].userId /\ r.code # result[p].code) => r.used

====
